---- MODULE Spec2Model ----
(***************************************************************************)
(* Call-ingestion pipeline of CallAnalysis: the remote transcription       *)
(* client of Audio_Recognition.process_file, the batch orchestrator        *)
(* process_all_files, the duration resolution and effectiveness verdict,   *)
(* and the two duplicate-detection layers.                                 *)
(***************************************************************************)
EXTENDS Integers, Sequences, FiniteSets, TLC

VARIABLES
    \* ---- one transcription task of process_file (upload, submit, poll) ----
    pc,            \* position of the coroutine inside process_file
    retry_count,   \* Audio_Recognition.py:668
    polls,         \* number of query_task_async calls issued so far
    status_code,   \* X-Api-Status-Code of the last poll ("" before the first)
    classified,    \* terminal classifications reached, in order
    pollsAtTerminal, \* value of polls when the first terminal classification happened
    result,        \* the dict process_file returns: "none" until it returns
    \* ---- assembly of one call record (audio steps 7.1-9, image validation) ----
    a_pc,          \* position in the assembly of one record
    route,         \* "audio" (process_file) or "image" (extract_call_info_from_image)
    result_json,   \* vendor payload handed to extract_duration_from_result
    duration_seconds, \* resolved duration as <<numerator, denominator>>, <<>> if unset
    strategy,      \* which return of extract_duration_from_result produced it (0 = none yet)
    is_valid_call, \* <<>> until computed, then <<b>>
    call,          \* one call dict of the image recogniser's JSON answer
    call_detail,   \* record handed to persistence, <<>> if none
    \* ---- content-similarity duplicate detection of one image run ----
    d_pc,          \* position in the second-layer check of main.py
    new_calls,     \* processing_results['all_calls'] as recognised
    db_calls,      \* call_details rows of the salesperson within the window
    existing_calls, \* what get_recent_call_records returned
    detection_result, \* what smart_duplicate_detection returned
    all_calls,     \* processing_results['all_calls'] after the check
    saved,         \* records handed to save_image_analysis_data, <<>> if none
    \* ---- filename duplicate check of one image upload ----
    f_pc,          \* position in check_image_duplicates / filter_duplicate_images
    uploaded_images, \* names of the uploaded files, in upload order
    call_details_rows, \* persisted rows: salesperson, filename, age in days
    duplicate_result, \* what check_duplicate_filenames returned
    image_result,  \* what check_image_duplicates returned
    filtered_images, \* what filter_duplicate_images returned, <<>> before
    \* ---- one batch of process_all_files ----
    temp_files,    \* the batch: per file its path stem, extension and fate
    fs,            \* converted files on disk: path stem -> file whose audio it holds, 0 if none
    b_pc,          \* per file: position of its process_file coroutine
    temp_converted_file, \* per file: TRUE once its converted path is set
    uploaded,      \* per file: whose audio was uploaded, 0 before
    outcome,       \* per file: the dict process_file returned, <<>> before
    finish_order,  \* files in the order their pipelines returned
    done_queue,    \* finished pipelines as_completed has not yielded yet
    o_pc,          \* position of process_all_files
    count,         \* process_all_files count
    progress,      \* updates the observer received: <<count, total>>
    results,       \* process_all_files results
    \* ---- one comparison of calculate_similarity ----
    s_pc,          \* "start" before the comparison, "scored" after
    s_stamp1,      \* timestamp shown for the new call
    s_stamp2,      \* timestamp stored with the existing record
    s_fields,      \* contact and company of the new call and of the existing record
    s_scores,      \* the four scores, the weights and the total
    \* ---- one file going through process_file, with the files it creates ----
    p_pc,          \* position of process_file and of the converter it awaits
    audio_file,    \* the input file: extension, size, what decoding it yields
    disk,          \* working files of the run: path -> content, "absent" if none
    tried,         \* decode strategies attempted so far, each with its outcome
    converted_file, \* temp_converted_file: "none" or the path it names
    file_to_upload, \* "none", "original" or "converted"
    conversion_info, \* "none", or the value of conversion_success
    steps,         \* external steps issued so far, each with its outcome
    p_result,      \* the dict process_file returned, NoResult before
    \* ---- the session around one audio run of main.py ----
    m_pc,          \* position of main.py after process_file returned
    converted_files_cleanup, \* st.session_state.converted_files_cleanup
    \* ---- one call of a helper function on its own ----
    x_pc,          \* "call" before the function is applied, "returned" after
    x_args,        \* the arguments of the call
    x_value,       \* what the call returned
    \* ---- the correlation ids of the transcription tasks of one batch ----
    t_pc,          \* per task: position of its process_file coroutine
    t_local,       \* per task: its local task_id, x_tt_logid and retry_count
    requests,      \* the requests the vendor received, with their headers
    uuids          \* number of uuid4 values drawn so far

pollVars == <<pc, retry_count, polls, status_code, classified, pollsAtTerminal, result>>
asmVars == <<a_pc, route, result_json, duration_seconds, strategy, is_valid_call, call,
             call_detail>>

dedupVars == <<d_pc, new_calls, db_calls, existing_calls, detection_result, all_calls, saved>>

fnameVars == <<f_pc, uploaded_images, call_details_rows, duplicate_result, image_result,
               filtered_images>>

batchVars == <<temp_files, fs, b_pc, temp_converted_file, uploaded, outcome, finish_order,
               done_queue, o_pc, count, progress, results>>

scoreVars == <<s_pc, s_stamp1, s_stamp2, s_fields, s_scores>>

fileVars == <<p_pc, audio_file, disk, tried, converted_file, file_to_upload,
              conversion_info, steps, p_result>>

sessionVars == <<m_pc, converted_files_cleanup>>

callVars == <<x_pc, x_args, x_value>>

taskVars == <<t_pc, t_local, requests, uuids>>

vars == <<pollVars, asmVars, dedupVars, fnameVars, batchVars, scoreVars, fileVars, sessionVars, callVars, taskVars>>

\* Optional values are sequences: <<>> is an absent key (or None), <<v>> a value.
Absent == <<>>
Some(v) == <<v>>

(***************************************************************************)
(* Each specification below runs one part of the program; the variables of *)
(* the other parts rest at these values.                                   *)
(***************************************************************************)
NoPayload == [ai |-> Absent, utt |-> Absent, top |-> Absent, text |-> Absent]
NoCall == [duration_text |-> <<"other", 0, 0>>, duration_seconds |-> Absent,
           is_effective |-> Absent]

PollIdle ==
    /\ pc = "idle"
    /\ retry_count = 0
    /\ polls = 0
    /\ status_code = ""
    /\ classified = <<>>
    /\ pollsAtTerminal = 0
    /\ result = "none"

NoDetection ==
    [processed_calls |-> <<>>, skipped_calls |-> <<>>, skip_count |-> 0, process_count |-> 0]

DedupIdle ==
    /\ d_pc = "idle"
    /\ new_calls = <<>>
    /\ db_calls = <<>>
    /\ existing_calls = <<>>
    /\ detection_result = NoDetection
    /\ all_calls = <<>>
    /\ saved = Absent

NoDuplicateResult == [duplicates |-> <<>>, new_files |-> <<>>]
NoImageResult ==
    [has_duplicates |-> FALSE, duplicates |-> <<>>, new_files |-> <<>>,
     duplicate_files |-> <<>>, clean_files |-> <<>>, error |-> FALSE]

FnameIdle ==
    /\ f_pc = "idle"
    /\ uploaded_images = <<>>
    /\ call_details_rows = {}
    /\ duplicate_result = NoDuplicateResult
    /\ image_result = NoImageResult
    /\ filtered_images = Absent

Stems == {"a", "b"}

BatchIdle ==
    /\ temp_files = <<>>
    /\ fs = [st \in Stems |-> 0]
    /\ b_pc = <<>>
    /\ temp_converted_file = <<>>
    /\ uploaded = <<>>
    /\ outcome = <<>>
    /\ finish_order = <<>>
    /\ done_queue = <<>>
    /\ o_pc = "idle"
    /\ count = 0
    /\ progress = <<>>
    /\ results = <<>>

NoStamp == [fmt |-> "cn", day |-> 24, marker |-> "none", minute |-> 0]
NoFields == [contact_info |-> Absent, company_new |-> Absent,
             contact_person |-> Absent, company_existing |-> Absent]
NoScores == [time |-> 0, duration |-> 0, contact |-> 0, company |-> 0,
             weights |-> [call_time_match |-> 0, call_duration_match |-> 0,
                          contact_name_match |-> 0, company_name_match |-> 0],
             total |-> 0]

ScoreIdle ==
    /\ s_pc = "idle"
    /\ s_stamp1 = NoStamp
    /\ s_stamp2 = NoStamp
    /\ s_fields = NoFields
    /\ s_scores = NoScores

WorkPaths == {"temp_aac", "temp_wav", "converted"}
NoAudioFile ==
    [ext |-> "none", exists |-> FALSE, size |-> 0, probe |-> <<>>, silent |-> FALSE,
     exportable |-> FALSE, decodes |-> <<>>]
NoResult == [status |-> "none", message |-> <<>>, conversion_info |-> "none"]

FileIdle ==
    /\ p_pc = "idle"
    /\ audio_file = NoAudioFile
    /\ disk = [p \in WorkPaths |-> "absent"]
    /\ tried = <<>>
    /\ converted_file = "none"
    /\ file_to_upload = "none"
    /\ conversion_info = "none"
    /\ steps = <<>>
    /\ p_result = NoResult

SessionIdle ==
    /\ m_pc = "idle"
    /\ converted_files_cleanup = <<>>

CallIdle ==
    /\ x_pc = "idle"
    /\ x_args = <<>>
    /\ x_value = <<>>

TaskIdle ==
    /\ t_pc = <<>>
    /\ t_local = <<>>
    /\ requests = {}
    /\ uuids = 0

AsmIdle ==
    /\ a_pc = "idle"
    /\ route = "none"
    /\ result_json = NoPayload
    /\ duration_seconds = Absent
    /\ strategy = 0
    /\ is_valid_call = Absent
    /\ call = NoCall
    /\ call_detail = Absent

(***************************************************************************)
(* Duration resolution and effectiveness verdict                           *)
(***************************************************************************)

\* Bound on the number of utterances of a payload.
MaxUtterances == 2

\* audio_info.duration values (milliseconds) a payload may carry.
AiDurations == {-1000, 0, 1000, 59999, 60000}
\* end_time values (milliseconds) of an utterance; Absent is a missing key.
EndTimes == {Absent, Some(0), Some(30000), Some(61000)}
\* Top-level duration field: a number, or a value that is not a number.
TopDurations == {<<"str", 0>>} \cup {<<"num", v>> : v \in {-3, 0, 45, 1000, 1001, 90000}}
\* len(result.text)
TextLengths == {0, 2, 179, 180}

UtteranceLists == UNION {[1..n -> EndTimes] : n \in 0..MaxUtterances}

\* Vendor payloads: each field absent or present.
Payloads ==
    [ai   : {Absent} \cup {Some(v) : v \in AiDurations},
     utt  : {Absent} \cup {Some(l) : l \in UtteranceLists},
     top  : {Absent} \cup {Some(v) : v \in TopDurations},
     text : {Absent} \cup {Some(n) : n \in TextLengths}]

\* utterance.get('end_time', 0)
GetEndTime(u) == IF u = Absent THEN 0 ELSE u[1]

\* The loop computing max_end_time, starting from 0.
RECURSIVE MaxEndTime(_, _, _)
MaxEndTime(utterances, i, max_end_time) ==
    IF i > Len(utterances) THEN max_end_time
    ELSE LET end_time == GetEndTime(utterances[i]) IN
         MaxEndTime(utterances, i + 1,
                    IF end_time > max_end_time THEN end_time ELSE max_end_time)

\* Method 1: audio_info.duration, milliseconds to seconds.
Method1(p) ==
    IF p.ai # Absent /\ p.ai[1] > 0 THEN <<p.ai[1], 1000>> ELSE Absent

\* Method 2: the largest end_time of the utterances.
Method2(p) ==
    IF p.utt # Absent /\ Len(p.utt[1]) > 0 /\ MaxEndTime(p.utt[1], 1, 0) > 0
    THEN <<MaxEndTime(p.utt[1], 1, 0), 1000>>
    ELSE Absent

\* Method 3: top-level duration, milliseconds if > 1000, else seconds.
Method3(p) ==
    IF p.top # Absent /\ p.top[1][1] = "num" /\ p.top[1][2] > 0
    THEN IF p.top[1][2] > 1000 THEN <<p.top[1][2], 1000>> ELSE <<p.top[1][2], 1>>
    ELSE Absent

\* Method 4: len(text) / 3.
Method4(p) ==
    IF p.text # Absent /\ p.text[1] > 0 THEN <<p.text[1], 3>> ELSE Absent

\* extract_duration_from_result: the value returned and the return statement
\* that produced it (1-4, or 5 for the substituted 1.0).
ExtractDurationUtterancesFirst(p) ==
    IF Method2(p) # Absent THEN [value |-> Method2(p), strategy |-> 2]
    ELSE IF Method1(p) # Absent THEN [value |-> Method1(p), strategy |-> 1]
    ELSE IF Method3(p) # Absent THEN [value |-> Method3(p), strategy |-> 3]
    ELSE IF Method4(p) # Absent THEN [value |-> Method4(p), strategy |-> 4]
    ELSE [value |-> <<1, 1>>, strategy |-> 5]
ExtractDurationZeroDefault(p) ==
    IF Method1(p) # Absent THEN [value |-> Method1(p), strategy |-> 1]
    ELSE IF Method2(p) # Absent THEN [value |-> Method2(p), strategy |-> 2]
    ELSE IF Method3(p) # Absent THEN [value |-> Method3(p), strategy |-> 3]
    ELSE IF Method4(p) # Absent THEN [value |-> Method4(p), strategy |-> 4]
    ELSE [value |-> <<0, 1>>, strategy |-> 5]
extract_duration_from_result(p) ==
    IF Method1(p) # Absent THEN [value |-> Method1(p), strategy |-> 1]
    ELSE IF Method2(p) # Absent THEN [value |-> Method2(p), strategy |-> 2]
    ELSE IF Method3(p) # Absent THEN [value |-> Method3(p), strategy |-> 3]
    ELSE IF Method4(p) # Absent THEN [value |-> Method4(p), strategy |-> 4]
    ELSE [value |-> <<1, 1>>, strategy |-> 5]

\* duration_seconds >= 60 on a duration n/d seconds.
AtLeast60Strict(d) == d[1] > 60 * d[2]
AtLeast60(d) == d[1] >= 60 * d[2]

\* duration_text values of the recogniser's answer: "MM:SS", digits only, or
\* anything else (for instance "1分39秒").
DurationTexts ==
    {<<"mmss", m, sec>> : m \in {0, 1, 2}, sec \in {0, 39, 59}}
        \cup {<<"digits", n, 0>> : n \in {45, 60}}
        \cup {<<"other", 0, 0>>}

\* Call dicts as json.loads returns them: duration_seconds and is_effective are
\* whatever the recogniser wrote, or missing.
LLMCalls ==
    [duration_text    : DurationTexts,
     duration_seconds : {Absent, Some(45), Some(99)},
     is_effective     : {Absent, Some(TRUE), Some(FALSE)}]

\* parse_duration_to_seconds: minutes * 60 + seconds, or the digits, or None.
parse_duration_to_seconds(t) ==
    IF t[1] = "mmss" THEN Some(t[2] * 60 + t[3])
    ELSE IF t[1] = "digits" THEN Some(t[2])
    ELSE Absent

AsmOnly == UNCHANGED <<pollVars, dedupVars, fnameVars, batchVars, scoreVars, fileVars, sessionVars, callVars, taskVars>>

AsmInit ==
    /\ a_pc = "start"
    /\ duration_seconds = Absent
    /\ strategy = 0
    /\ is_valid_call = Absent
    /\ call_detail = Absent
    /\ \/ route = "audio" /\ result_json \in Payloads /\ call = NoCall
       \/ route = "image" /\ result_json = NoPayload /\ call \in LLMCalls

\* process_file 7.1: duration_seconds = extract_duration_from_result(result_json)
ExtractDuration ==
    /\ a_pc = "start"
    /\ route = "audio"
    /\ AsmOnly
    /\ duration_seconds' = extract_duration_from_result(result_json).value
    /\ strategy' = extract_duration_from_result(result_json).strategy
    /\ a_pc' = "extracted"
    /\ UNCHANGED <<route, result_json, is_valid_call, call, call_detail>>

\* process_file 7.2: is_valid_call = duration_seconds >= 60
ClassifyValid ==
    /\ a_pc = "extracted"
    /\ AsmOnly
    /\ is_valid_call' = Some(AtLeast60(duration_seconds))
    /\ a_pc' = "classified"
    /\ UNCHANGED <<route, result_json, duration_seconds, strategy, call, call_detail>>

\* main.py: a call_detail is built for a result whose analysis succeeded, with
\* is_effective = res.get("is_valid_call", False).
HandOff ==
    /\ a_pc = "classified"
    /\ AsmOnly
    /\ \E analysis_ok \in BOOLEAN :
         call_detail' = IF analysis_ok
                        THEN Some([is_effective |-> is_valid_call[1]])
                        ELSE Absent
    /\ a_pc' = "saved"
    /\ UNCHANGED <<route, result_json, duration_seconds, strategy, is_valid_call, call>>

\* extract_call_info_from_image: duration_seconds and is_effective of a call are
\* overwritten only when duration_text parses.
ValidateCall ==
    /\ a_pc = "start"
    /\ route = "image"
    /\ AsmOnly
    /\ LET parsed == parse_duration_to_seconds(call.duration_text) IN
         IF parsed # Absent
         THEN /\ call' = [call EXCEPT !.duration_seconds = parsed,
                                      !.is_effective = Some(AtLeast60(<<parsed[1], 1>>))]
              /\ duration_seconds' = <<parsed[1], 1>>
         ELSE UNCHANGED <<call, duration_seconds>>
    /\ a_pc' = "validated"
    /\ UNCHANGED <<route, result_json, strategy, is_valid_call, call_detail>>

\* prepare_database_update_data: 'is_effective': call.get('is_effective', False)
PrepareDatabaseUpdate ==
    /\ a_pc = "validated"
    /\ AsmOnly
    /\ call_detail' = Some([is_effective |->
                              IF call.is_effective = Absent THEN FALSE
                              ELSE call.is_effective[1]])
    /\ a_pc' = "saved"
    /\ UNCHANGED <<route, result_json, duration_seconds, strategy, is_valid_call, call>>

AsmNext ==
    \/ ExtractDuration
    \/ ClassifyValid
    \/ HandOff
    \/ ValidateCall
    \/ PrepareDatabaseUpdate

InitAssemble == AsmInit /\ PollIdle /\ DedupIdle /\ FnameIdle /\ BatchIdle /\ ScoreIdle /\ FileIdle /\ SessionIdle /\ CallIdle /\ TaskIdle

SpecAssemble == InitAssemble /\ [][AsmNext]_vars

C6_DurationPrecedence ==
    (route = "audio" /\ a_pc # "start") =>
        LET p == result_json
            ends == IF p.utt = Absent THEN {}
                    ELSE {GetEndTime(p.utt[1][i]) : i \in DOMAIN p.utt[1]}
            s1 == p.ai # Absent /\ p.ai[1] > 0
            s2 == \E e \in ends : e > 0
            s3 == p.top # Absent /\ p.top[1][1] = "num" /\ p.top[1][2] > 0
            s4 == p.text # Absent /\ p.text[1] > 0
        IN  /\ s1 => duration_seconds = <<p.ai[1], 1000>>
            /\ (~s1 /\ s2) =>
                 /\ duration_seconds[2] = 1000
                 /\ duration_seconds[1] \in ends
                 /\ \A e \in ends : e <= duration_seconds[1]
            /\ (~s1 /\ ~s2 /\ s3) =>
                 duration_seconds = IF p.top[1][2] > 1000 THEN <<p.top[1][2], 1000>>
                                    ELSE <<p.top[1][2], 1>>
            /\ (~s1 /\ ~s2 /\ ~s3 /\ s4) => duration_seconds = <<p.text[1], 3>>

C6_Witness ==
    /\ route = "audio"
    /\ result_json.ai = Some(1000)
    /\ result_json.utt = Some(<<Some(61000), Some(30000)>>)
    /\ duration_seconds = <<1000, 1000>>

\* C7: the returned duration is strictly positive for every payload, and it is
\* the substituted 1.0 s exactly when none of the four strategies yields a
\* positive value.
C7_DurationPositive ==
    (route = "audio" /\ a_pc # "start") =>
        LET p == result_json
            none == /\ (p.ai = Absent \/ p.ai[1] <= 0)
                    /\ (p.utt = Absent
                          \/ \A i \in DOMAIN p.utt[1] : GetEndTime(p.utt[1][i]) <= 0)
                    /\ (p.top = Absent \/ p.top[1][1] # "num" \/ p.top[1][2] <= 0)
                    /\ (p.text = Absent \/ p.text[1] <= 0)
        IN  /\ duration_seconds[1] > 0
            /\ duration_seconds[2] > 0
            /\ (strategy = 5) = none
            /\ none => duration_seconds = <<1, 1>>

C7_Witness ==
    /\ route = "audio"
    /\ strategy = 5
    /\ duration_seconds = <<1, 1>>
    /\ result_json.ai = Some(0)
    /\ result_json.utt = Some(<<>>)
    /\ result_json.top = Some(<<"num", -3>>)
    /\ result_json.text = Some(0)

\* The results process_file can return for a payload whose duration one of
\* the first three strategies measured: duration_seconds and is_valid_call.
MeasuredResults ==
    {[duration_seconds |-> extract_duration_from_result(p).value,
      is_valid_call |-> AtLeast60(extract_duration_from_result(p).value)] :
        p \in {q \in Payloads : extract_duration_from_result(q).strategy \in 1..3}}

\* C22: when no strategy yields a value and 1.0 s is substituted, the result
\* handed on is marked: a consumer can tell it from every result whose
\* duration was measured, so it equals none of them in duration and verdict.
C22_SubstitutedDurationMarked ==
    (route = "audio" /\ strategy = 5 /\ is_valid_call # Absent) =>
        \A r \in MeasuredResults :
            \/ r.duration_seconds[1] * duration_seconds[2]
                   # duration_seconds[1] * r.duration_seconds[2]
            \/ r.is_valid_call # is_valid_call[1]

(***************************************************************************)
(* Duplicate detection, layer 2: weighted content similarity               *)
(*                                                                         *)
(* Scores are exact rationals held as integers in units of 1/600, so that  *)
(* every tier (a multiple of 0.05) and every overlap ratio of names of up  *)
(* to six characters is an integer; weights are in hundredths and a total  *)
(* is in units of 1/60000.                                                 *)
(***************************************************************************)

\* A score given in hundredths (0.95 -> 95), in units of 1/600.
Tier(h) == h * 6

\* DUPLICATE_DETECTION_WEIGHTS, in hundredths.
DUPLICATE_DETECTION_WEIGHTS ==
    [call_time_match |-> 50, call_duration_match |-> 30,
     contact_name_match |-> 10, company_name_match |-> 10]

\* DUPLICATE_THRESHOLD = 0.7, in hundredths.
DUPLICATE_THRESHOLD == 70

\* Python truthiness of an optional string: None and "" are false.
Truthy(t) == t # Absent /\ t[1] # <<>>

\* str.lower() on the characters used here.
LowerChar(c) == IF c = "A" THEN "a" ELSE IF c = "B" THEN "b" ELSE c
Lower(str) == [i \in DOMAIN str |-> LowerChar(str[i])]

\* str.strip()
RECURSIVE LStrip(_)
LStrip(str) ==
    IF str # <<>> /\ Head(str) = " " THEN LStrip(Tail(str)) ELSE str
RECURSIVE RStrip(_)
RStrip(str) ==
    IF str # <<>> /\ str[Len(str)] = " " THEN RStrip(SubSeq(str, 1, Len(str) - 1))
    ELSE str
Strip(str) == RStrip(LStrip(str))

\* a in b for strings
IsSubstring(a, b) ==
    \E i \in 1..(Len(b) - Len(a) + 1) : SubSeq(b, i, i + Len(a) - 1) = a

\* sum(1 for c in text1 if c in text2)
CommonChars(text1, text2) ==
    Cardinality({i \in DOMAIN text1 : \E j \in DOMAIN text2 : text2[j] = text1[i]})

Max(a, b) == IF a >= b THEN a ELSE b
Min(a, b) == IF a <= b THEN a ELSE b
Abs(x) == IF x < 0 THEN -x ELSE x

\* calculate_text_similarity
calculate_text_similarity(t1, t2) ==
    IF ~Truthy(t1) /\ ~Truthy(t2) THEN Tier(50)
    ELSE IF ~Truthy(t1) \/ ~Truthy(t2) THEN Tier(50)
    ELSE LET text1 == Lower(Strip(t1[1]))
             text2 == Lower(Strip(t2[1]))
         IN  IF text1 = text2 THEN Tier(100)
             ELSE IF IsSubstring(text1, text2) \/ IsSubstring(text2, text1) THEN Tier(80)
             ELSE IF Len(text1) > 0 /\ Len(text2) > 0 /\ text1[1] = text2[1] THEN Tier(60)
             ELSE Min(Tier(50),
                      (600 * CommonChars(text1, text2)) \div Max(Len(text1), Len(text2)))

DurationSimilarityTimeTiers(duration1, duration2) ==
    IF duration1 = Absent \/ duration2 = Absent THEN Tier(0)
    ELSE LET diff_seconds == Abs(duration1[1] - duration2[1]) IN
         IF diff_seconds = 0 THEN Tier(100)
         ELSE IF diff_seconds <= 3 THEN Tier(95)
         ELSE IF diff_seconds <= 5 THEN Tier(90)
         ELSE IF diff_seconds <= 10 THEN Tier(70)
         ELSE IF diff_seconds <= 15 THEN Tier(50)
         ELSE Tier(20)
\* calculate_duration_similarity on two numbers or None.
calculate_duration_similarity(duration1, duration2) ==
    IF duration1 = Absent \/ duration2 = Absent THEN Tier(0)
    ELSE LET diff_seconds == Abs(duration1[1] - duration2[1]) IN
         IF diff_seconds = 0 THEN Tier(100)
         ELSE IF diff_seconds <= 3 THEN Tier(95)
         ELSE IF diff_seconds <= 5 THEN Tier(90)
         ELSE IF diff_seconds <= 10 THEN Tier(80)
         ELSE IF diff_seconds <= 15 THEN Tier(60)
         ELSE IF diff_seconds <= 30 THEN Tier(40)
         ELSE Tier(10)

AdjustWeightsTimeRaisedAlone(call1, call2) ==
    LET contact_missing == ~(Truthy(call1.contact_person) /\ Truthy(call2.contact_person))
        company_missing == ~(Truthy(call1.company_name) /\ Truthy(call2.company_name))
    IN  IF contact_missing /\ company_missing
        THEN [call_time_match |-> 60, call_duration_match |-> 30,
              contact_name_match |-> 5, company_name_match |-> 5]
        ELSE IF contact_missing
        THEN [call_time_match |-> 55, call_duration_match |-> 30,
              contact_name_match |-> 10, company_name_match |-> 10]
        ELSE IF company_missing
        THEN [call_time_match |-> 55, call_duration_match |-> 30,
              contact_name_match |-> 10, company_name_match |-> 5]
        ELSE DUPLICATE_DETECTION_WEIGHTS

AdjustWeightsNewRecordOnly(call1, call2) ==
    LET contact_missing == ~Truthy(call1.contact_person)
        company_missing == ~Truthy(call1.company_name)
    IN  IF contact_missing /\ company_missing
        THEN [call_time_match |-> 60, call_duration_match |-> 30,
              contact_name_match |-> 5, company_name_match |-> 5]
        ELSE IF contact_missing
        THEN [call_time_match |-> 55, call_duration_match |-> 30,
              contact_name_match |-> 5, company_name_match |-> 10]
        ELSE IF company_missing
        THEN [call_time_match |-> 55, call_duration_match |-> 30,
              contact_name_match |-> 10, company_name_match |-> 5]
        ELSE DUPLICATE_DETECTION_WEIGHTS

\* adjust_weights_for_missing_data
adjust_weights_for_missing_data(call1, call2) ==
    LET contact_missing == ~(Truthy(call1.contact_person) /\ Truthy(call2.contact_person))
        company_missing == ~(Truthy(call1.company_name) /\ Truthy(call2.company_name))
    IN  IF contact_missing /\ company_missing
        THEN [call_time_match |-> 60, call_duration_match |-> 30,
              contact_name_match |-> 5, company_name_match |-> 5]
        ELSE IF contact_missing
        THEN [call_time_match |-> 55, call_duration_match |-> 30,
              contact_name_match |-> 5, company_name_match |-> 10]
        ELSE IF company_missing
        THEN [call_time_match |-> 55, call_duration_match |-> 30,
              contact_name_match |-> 10, company_name_match |-> 5]
        ELSE DUPLICATE_DETECTION_WEIGHTS

(***************************************************************************)
(* Strings of the time and statistics fields                               *)
(*                                                                         *)
(* A string is a sequence of symbols: the ASCII characters stand for       *)
(* themselves; the CJK words the regular expressions look for are one      *)
(* symbol each, written here in pinyin; "NL" is the newline.               *)
(*   yue, ri, nian, fen, miao         one CJK character each               *)
(*   colon_full                       the full-width colon                 *)
(*   shangwu, xiawu, AM, PM           two characters each                  *)
(*   tonghua_shijian, tonghua_riqi,                                        *)
(*   tonghua_shichang, shichang_miaoshu   four characters each             *)
(*   weizhi                           two characters ("unknown")           *)
(***************************************************************************)
Digits == {"0", "1", "2", "3", "4", "5", "6", "7", "8", "9"}
Whitespace == {" ", "NL"}
Colons == {":", "colon_full"}
AmPmWords == {"shangwu", "xiawu", "AM", "PM"}

DigitVal(c) ==
    CASE c = "0" -> 0 [] c = "1" -> 1 [] c = "2" -> 2 [] c = "3" -> 3 [] c = "4" -> 4
      [] c = "5" -> 5 [] c = "6" -> 6 [] c = "7" -> 7 [] c = "8" -> 8 [] c = "9" -> 9

\* int(digits)
RECURSIVE ToInt(_)
ToInt(ds) ==
    IF ds = <<>> THEN 0 ELSE 10 * ToInt(SubSeq(ds, 1, Len(ds) - 1)) + DigitVal(ds[Len(ds)])

\* len() of one symbol in characters, and the symbol spelled in characters.
Chars(c) ==
    CASE c = "shangwu" -> <<"shang", "wu">>
      [] c = "xiawu" -> <<"xia", "wu">>
      [] c = "AM" -> <<"A", "M">>
      [] c = "PM" -> <<"P", "M">>
      [] c = "weizhi" -> <<"wei", "zhi">>
      [] c = "tonghua_shijian" -> <<"tong", "hua", "shi", "jian">>
      [] c = "tonghua_riqi" -> <<"tong", "hua", "ri", "qi">>
      [] c = "tonghua_shichang" -> <<"tong", "hua", "shi", "chang">>
      [] c = "shichang_miaoshu" -> <<"shi", "chang", "miao", "shu">>
      [] OTHER -> <<c>>
RECURSIVE Spell(_)
Spell(str) == IF str = <<>> THEN <<>> ELSE Chars(Head(str)) \o Spell(Tail(str))

\* str.strip() over all whitespace
RECURSIVE LStripWs(_)
LStripWs(str) ==
    IF str # <<>> /\ Head(str) \in Whitespace THEN LStripWs(Tail(str)) ELSE str
RECURSIVE RStripWs(_)
RStripWs(str) ==
    IF str # <<>> /\ str[Len(str)] \in Whitespace
    THEN RStripWs(SubSeq(str, 1, Len(str) - 1)) ELSE str
StripWs(str) == RStripWs(LStripWs(str))

\* re.sub(r'\s+', ' ', str)
RECURSIVE CollapseWs(_)
CollapseWs(str) ==
    IF str = <<>> THEN <<>>
    ELSE IF Head(str) \in Whitespace THEN <<" ">> \o CollapseWs(LStripWs(str))
    ELSE <<Head(str)>> \o CollapseWs(Tail(str))

\* re.sub(r'(AM|PM|...)\s*', r'\1', str)
RECURSIVE DropWsAfterAmPm(_)
DropWsAfterAmPm(str) ==
    IF str = <<>> THEN <<>>
    ELSE IF Head(str) \in AmPmWords THEN <<Head(str)>> \o DropWsAfterAmPm(LStripWs(Tail(str)))
    ELSE <<Head(str)>> \o DropWsAfterAmPm(Tail(str))

\* str.replace(' ', '') and re.sub(r'(AM|PM|...)', '', str)
Without(str, set) == SelectSeq(str, LAMBDA c : c \notin set)

(***************************************************************************)
(* re.search for a pattern that is a concatenation of greedy quantified    *)
(* character classes.  A match is the sequence of its boundaries: b[1] is  *)
(* the index of the first symbol, b[k+1] the index after item k.           *)
(***************************************************************************)
Item(cls, lo, hi) == [cls |-> cls, lo |-> lo, hi |-> hi]
D(lo, hi) == Item(Digits, lo, hi)
L(cls) == Item(cls, 1, 1)
Opt(cls) == Item(cls, 0, 1)
WsStar == Item(Whitespace, 0, 99)
DPlus == Item(Digits, 1, 99)

ItemEnds(item, str, pos) ==
    {e \in (pos + item.lo)..Min(pos + item.hi, Len(str) + 1) :
        \A i \in pos..(e - 1) : str[i] \in item.cls}

RECURSIVE MatchFrom(_, _, _, _)
MatchFrom(items, k, str, pos) ==
    IF k > Len(items) THEN {<<>>}
    ELSE UNION {{<<e>> \o rest : rest \in MatchFrom(items, k + 1, str, e)} :
                   e \in ItemEnds(items[k], str, pos)}

AllMatches(items, str) ==
    UNION {{<<st>> \o m : m \in MatchFrom(items, 1, str, st)} : st \in 1..(Len(str) + 1)}

\* a is tried before b by the backtracking matcher: leftmost start, then greedy
TriedBefore(a, b) ==
    \E i \in DOMAIN a :
        /\ \A j \in 1..(i - 1) : a[j] = b[j]
        /\ IF i = 1 THEN a[i] < b[i] ELSE a[i] > b[i]

FirstTried(ms) ==
    IF ms = {} THEN Absent
    ELSE Some(CHOOSE m \in ms : \A o \in ms \ {m} : TriedBefore(m, o))

Search(items, str) == FirstTried(AllMatches(items, str))

\* The text between two boundaries of a match.
Between(str, m, a, b) == SubSeq(str, m[a], m[b] - 1)

(***************************************************************************)
(* calculate_time_similarity                                               *)
(***************************************************************************)
TimeLabelPattern == <<L({"tonghua_shijian"}), L(Colons), WsStar>>

\* group(1).strip() of the match m of r'<label>[:：]\s*(.+?)(?:\n|$)': the text
\* after the label up to the first newline or the end.
LabelledText(str, m, newlines) ==
    StripWs(SubSeq(str, m[4],
                   IF newlines = {} THEN Len(str)
                   ELSE (CHOOSE i \in newlines : \A j \in newlines : i <= j) - 1))

\* The string itself when the label is not found.
LabelledOrSelf(str, found) ==
    IF found = Absent THEN str
    ELSE LabelledText(str, found[1], {i \in found[1][4]..Len(str) : str[i] = "NL"})

ExtractLabelled(str) ==
    LabelledOrSelf(str, FirstTried({m \in AllMatches(TimeLabelPattern, str) :
                                      m[4] <= Len(str) /\ str[m[4]] \notin Whitespace}))

NormalizeTime(str) == ExtractLabelled(DropWsAfterAmPm(CollapseWs(StripWs(str))))

\* The patterns of parse_datetime in order, each with the boundaries of its
\* date group and of its time group (for the first: of am/pm plus time).
DatePatterns ==
    << [items |-> <<D(1, 2), L({"yue"}), D(1, 2), L({"ri"}), WsStar,
                    Opt({"shangwu", "xiawu"}), D(1, 2), L(Colons), D(2, 2)>>,
        date |-> <<1, 5>>, time |-> <<6, 10>>],
       [items |-> <<D(4, 4), L({"-", "/", "nian"}), D(1, 2), L({"-", "/", "yue"}), D(1, 2),
                    Opt({"ri"}), WsStar, D(1, 2), L(Colons), D(2, 2)>>,
        date |-> <<1, 7>>, time |-> <<8, 11>>],
       [items |-> <<D(4, 4), L({"-"}), D(2, 2), L({"-"}), D(2, 2), WsStar,
                    D(2, 2), L({":"}), D(2, 2)>>,
        date |-> <<1, 6>>, time |-> <<7, 10>>],
       [items |-> <<D(2, 2), L({"/"}), D(2, 2), WsStar, D(2, 2), L({":"}), D(2, 2)>>,
        date |-> <<1, 4>>, time |-> <<5, 8>>] >>

\* <<date_part, time_part>> of a found match
DateTimeGroups(time_str, pattern, m) ==
    <<Between(time_str, m, pattern.date[1], pattern.date[2]),
      Between(time_str, m, pattern.time[1], pattern.time[2])>>

\* for pattern in patterns: match = re.search(pattern, time_str); if match: return ...
RECURSIVE TryDatePatterns(_, _, _)
TryDatePatterns(time_str, k, found) ==
    IF found # Absent THEN Some(DateTimeGroups(time_str, DatePatterns[k - 1], found[1]))
    ELSE IF k > Len(DatePatterns) THEN Absent
    ELSE TryDatePatterns(time_str, k + 1, Search(DatePatterns[k].items, time_str))

\* parse_datetime: <<date_part, time_part>> of the first pattern found, or Absent.
parse_datetime(time_str) == TryDatePatterns(time_str, 1, Absent)

\* h * 60 + m of "h:mm"
MinutesOf(clean) ==
    LET c == CHOOSE i \in DOMAIN clean : clean[i] \in Colons IN
    ToInt(SubSeq(clean, 1, c - 1)) * 60 + ToInt(SubSeq(clean, c + 1, Len(clean)))

\* sum(1 for a, b in zip(time1, time2) if a != b)
DiffCount(c1, c2) ==
    Cardinality({i \in 1..Min(Len(c1), Len(c2)) : c1[i] # c2[i]})

MinuteTier(diff_minutes) ==
    IF diff_minutes = 0 THEN Tier(100)
    ELSE IF diff_minutes <= 3 THEN Tier(95)
    ELSE IF diff_minutes <= 5 THEN Tier(90)
    ELSE IF diff_minutes <= 10 THEN Tier(70)
    ELSE IF diff_minutes <= 15 THEN Tier(50)
    ELSE Tier(20)

\* both strings parsed, the dates equal: compare the clock times
CompareClock(time1_clean, time2_clean) ==
    IF time1_clean = time2_clean THEN Tier(100)
    ELSE MinuteTier(Abs(MinutesOf(time1_clean) - MinutesOf(time2_clean)))

CompareUnparsedThreeApart(time1, time2) ==
    IF Without(time1, {" "}) = Without(time2, {" "}) THEN Tier(95)
    ELSE IF Len(Spell(time1)) = Len(Spell(time2)) /\ DiffCount(Spell(time1), Spell(time2)) <= 3
    THEN Tier(80)
    ELSE Tier(0)

\* the string comparison used when one of the two does not parse
CompareUnparsed(time1, time2) ==
    IF Without(time1, {" "}) = Without(time2, {" "}) THEN Tier(95)
    ELSE IF Len(Spell(time1)) = Len(Spell(time2)) /\ DiffCount(Spell(time1), Spell(time2)) <= 2
    THEN Tier(80)
    ELSE Tier(0)

CompareParsed(time1, time2, p1, p2) ==
    IF p1 = Absent \/ p2 = Absent THEN CompareUnparsed(time1, time2)
    ELSE IF p1[1][1] # p2[1][1] THEN Tier(0)
    ELSE CompareClock(StripWs(Without(p1[1][2], AmPmWords)),
                      StripWs(Without(p2[1][2], AmPmWords)))

CompareNormalized(time1, time2) ==
    IF time1 = time2 THEN Tier(100)
    ELSE CompareParsed(time1, time2, parse_datetime(time1), parse_datetime(time2))

calculate_time_similarity(t1, t2) ==
    IF ~Truthy(t1) \/ ~Truthy(t2) THEN Tier(0)
    ELSE CompareNormalized(NormalizeTime(t1[1]), NormalizeTime(t2[1]))

(***************************************************************************)
(* extract_duration_from_analysis                                          *)
(***************************************************************************)
\* The patterns in the order they are tried, each with the boundaries of its
\* digit groups; the last one reads minutes and seconds.
DurationPatterns ==
    << [items |-> <<L({"shichang_miaoshu"}), L(Colons), WsStar, DPlus>>,
        minutes |-> <<1, 1>>, seconds |-> <<4, 5>>],
       [items |-> <<DPlus, WsStar, L({"miao"})>>,
        minutes |-> <<1, 1>>, seconds |-> <<1, 2>>],
       [items |-> <<L({"tonghua_shichang"}), L(Colons), WsStar, DPlus, WsStar, L({"miao"})>>,
        minutes |-> <<1, 1>>, seconds |-> <<4, 5>>],
       [items |-> <<L({"tonghua_shichang"}), L(Colons), WsStar, D(1, 2), L({":"}), D(2, 2)>>,
        minutes |-> <<4, 5>>, seconds |-> <<6, 7>>] >>

\* int(match.group(1)), or minutes * 60 + seconds for the last pattern
DurationOfMatch(str, pattern, m) ==
    ToInt(Between(str, m, pattern.minutes[1], pattern.minutes[2])) * 60
      + ToInt(Between(str, m, pattern.seconds[1], pattern.seconds[2]))

RECURSIVE TryDurationPatterns(_, _, _)
TryDurationPatterns(str, k, found) ==
    IF found # Absent THEN Some(DurationOfMatch(str, DurationPatterns[k - 1], found[1]))
    ELSE IF k > Len(DurationPatterns) THEN Absent
    ELSE TryDurationPatterns(str, k + 1, Search(DurationPatterns[k].items, str))

extract_duration_from_analysis(analysis_text) ==
    IF ~Truthy(analysis_text) THEN Absent
    ELSE TryDurationPatterns(analysis_text[1], 1, Absent)

(***************************************************************************)
(* calculate_similarity and smart_duplicate_detection                      *)
(***************************************************************************)
\* A duration_seconds the recogniser wrote as text instead of a number.
StrValue == <<"str", "weizhi">>
IsNumber(d) == Len(d) = 1

\* abs(duration1 - duration2) raises TypeError when duration1 is a string
\* and duration2 was found.
SimilarityRaises(call1, call2) ==
    /\ call1.duration_seconds = StrValue
    /\ extract_duration_from_analysis(call2.analysis_text) # Absent

\* Total similarity, in units of 1/60000.
calculate_similarity(call1, call2) ==
    LET time_sim == calculate_time_similarity(call1.call_time, call2.conversation_text)
        duration2 == extract_duration_from_analysis(call2.analysis_text)
        duration_sim == calculate_duration_similarity(call1.duration_seconds, duration2)
        contact_sim == calculate_text_similarity(call1.contact_info, call2.contact_person)
        company_sim == calculate_text_similarity(call1.company_name, call2.company_name)
        call1_adjusted == [contact_person |-> call1.contact_info,
                           company_name |-> call1.company_name]
        weights == adjust_weights_for_missing_data(call1_adjusted, call2)
    IN  time_sim * weights.call_time_match
          + duration_sim * weights.call_duration_match
          + contact_sim * weights.contact_name_match
          + company_sim * weights.company_name_match

IsDuplicateStrict(max_similarity) == max_similarity > DUPLICATE_THRESHOLD * 600
\* max_similarity >= DUPLICATE_THRESHOLD
IsDuplicate(max_similarity) == max_similarity >= DUPLICATE_THRESHOLD * 600

\* The inner loop of smart_duplicate_detection from existing record j on:
\* the running maximum and the record that set it.
RECURSIVE BestMatch(_, _, _, _, _)
BestMatch(new_call, existing, j, max_similarity, best_match) ==
    IF j > Len(existing) THEN [max_similarity |-> max_similarity, best_match |-> best_match]
    ELSE LET similarity == calculate_similarity(new_call, existing[j]) IN
         IF similarity > max_similarity
         THEN BestMatch(new_call, existing, j + 1, similarity, Some(existing[j]))
         ELSE BestMatch(new_call, existing, j + 1, max_similarity, best_match)

\* The outer loop from new call i on.
RECURSIVE Detect(_, _, _, _, _)
Detect(new, existing, i, processed, skipped) ==
    IF i > Len(new)
    THEN [processed_calls |-> processed, skipped_calls |-> skipped,
          skip_count |-> Len(skipped), process_count |-> Len(processed)]
    ELSE LET b == BestMatch(new[i], existing, 1, 0, Absent) IN
         IF IsDuplicate(b.max_similarity)
         THEN Detect(new, existing, i + 1, processed,
                     Append(skipped, [call |-> new[i], matched_call |-> b.best_match[1],
                                      similarity |-> b.max_similarity]))
         ELSE Detect(new, existing, i + 1, Append(processed, new[i]), skipped)

smart_duplicate_detection(new, existing) == Detect(new, existing, 1, <<>>, <<>>)

\* Some comparison of the run raises; nothing in the function catches it.
DetectionRaises(new, existing) ==
    \E i \in DOMAIN new : \E j \in DOMAIN existing : SimilarityRaises(new[i], existing[j])

(***************************************************************************)
(* The records the second layer runs on                                    *)
(***************************************************************************)
MaxNew == 2
MaxExisting == 2

DigitChar(n) == CHOOSE c \in Digits : DigitVal(c) = n
\* str(n)
RECURSIVE ToDigits(_)
ToDigits(n) ==
    IF n < 10 THEN <<DigitChar(n)>> ELSE ToDigits(n \div 10) \o <<DigitChar(n % 10)>>

\* "6月24日 上午hh:mm" and "6月25日 上午hh:mm"
TimeOn24(h1, h2, m1, m2) ==
    <<"6", "yue", "2", "4", "ri", " ", "shangwu", h1, h2, ":", m1, m2>>
TimeOn25(h1, h2, m1, m2) ==
    <<"6", "yue", "2", "5", "ri", " ", "shangwu", h1, h2, ":", m1, m2>>
Date24 == <<"2", "0", "2", "5", "-", "0", "6", "-", "2", "4">>
Date25 == <<"2", "0", "2", "5", "-", "0", "6", "-", "2", "5">>

RecognisedCall(time, date, text, seconds, contact, company) ==
    [call_time |-> time, call_date |-> date, duration_text |-> text,
     duration_seconds |-> seconds, contact_info |-> contact, company_name |-> company,
     is_effective |-> IsNumber(seconds) /\ seconds[1] >= 60]

CallSame ==
    RecognisedCall(Some(TimeOn24("1", "1", "1", "4")), Some(Date24),
                   Some(<<"0", "1", ":", "1", "4">>), Some(74),
                   Some(<<"a", "b">>), Some(<<"x", "y">>))
\* against the stored CallSame: 0.7 * 0.5 + 1.0 * 0.3 + 0.5 * 0.1 + 0.0 * 0.1 = 0.70
CallAtThreshold ==
    RecognisedCall(Some(TimeOn24("1", "1", "2", "0")), Some(Date24),
                   Some(<<"0", "1", ":", "1", "4">>), Some(74),
                   Some(<<"b", "a">>), Some(<<"q", "q">>))
\* against the stored CallSame: 0.9 * 0.5 + 0.6 * 0.3 + 0.6 * 0.1 + 0.0 * 0.1 = 0.69
CallBelowThreshold ==
    RecognisedCall(Some(TimeOn24("1", "1", "1", "8")), Some(Date24),
                   Some(<<"0", "1", ":", "2", "6">>), Some(86),
                   Some(<<"a", "c">>), Some(<<"q", "q">>))
CallOtherDay ==
    RecognisedCall(Some(TimeOn25("0", "9", "0", "0")), Some(Date25),
                   Some(<<"0", "0", ":", "3", "0">>), Some(30),
                   Some(<<"c", "d">>), Absent)
\* the recogniser could not read the duration and wrote "unknown" in both fields
CallUnreadDuration ==
    RecognisedCall(Some(TimeOn24("1", "1", "1", "4")), Some(Date24),
                   Some(<<"weizhi">>), StrValue,
                   Some(<<"a", "b">>), Some(<<"x", "y">>))
CallBare == RecognisedCall(Absent, Absent, Absent, Absent, Absent, Absent)

NewCallPool ==
    {CallSame, CallAtThreshold, CallBelowThreshold, CallOtherDay, CallUnreadDuration, CallBare}

\* format_call_time_info
format_call_time_info(call_data) ==
    LET t == IF Truthy(call_data.call_time)
             THEN <<<<"tonghua_shijian", ":", " ">> \o call_data.call_time[1]>> ELSE <<>>
        d == IF Truthy(call_data.call_date)
             THEN <<<<"tonghua_riqi", ":", " ">> \o call_data.call_date[1]>> ELSE <<>>
        info_parts == t \o d
    IN  IF info_parts = <<>> THEN Absent
        ELSE IF Len(info_parts) = 1 THEN Some(info_parts[1])
        ELSE Some(info_parts[1] \o <<"NL">> \o info_parts[2])

\* format_call_statistics
format_call_statistics(call_data) ==
    LET text == IF call_data.duration_text = Absent THEN <<"weizhi">>
                ELSE call_data.duration_text[1]
        secs == IF call_data.duration_seconds = Absent THEN <<"0">>
                ELSE IF IsNumber(call_data.duration_seconds)
                THEN ToDigits(call_data.duration_seconds[1])
                ELSE <<call_data.duration_seconds[2]>>
    IN  Some(<<"tonghua_shichang", ":", " ">> \o text
               \o <<"NL", "shichang_miaoshu", ":", " ">> \o secs
               \o <<"NL", "shifou_youxiao", ":", " ">>
               \o <<IF call_data.is_effective THEN "shi" ELSE "fou">>)

\* value.strip() or None
StripOrNone(t) ==
    IF t = Absent \/ Strip(t[1]) = <<>> THEN Absent ELSE Some(Strip(t[1]))

\* The call_details row prepare_database_update_data builds from a call.
StoredImageCall(c) ==
    [company_name |-> StripOrNone(c.company_name),
     contact_person |-> StripOrNone(c.contact_info),
     conversation_text |-> format_call_time_info(c),
     analysis_text |-> format_call_statistics(c),
     is_effective |-> c.is_effective,
     record_type |-> "image"]

\* A row of an audio upload: a transcript and an analysis that names no duration.
StoredAudioCall ==
    [company_name |-> Some(<<"x", "y">>), contact_person |-> Some(<<"a", "b">>),
     conversation_text |-> Some(<<"h", "i">>), analysis_text |-> Some(<<"o", "k">>),
     is_effective |-> TRUE, record_type |-> "audio"]

ExistingCallPool ==
    {StoredImageCall(CallSame), StoredImageCall(CallAtThreshold),
     StoredImageCall(CallOtherDay), StoredAudioCall}

SeqsUpTo(S, n) == UNION {[1..k -> S] : k \in 0..n}

(***************************************************************************)
(* Second layer of the image run (main.py): fetch the recent rows, run     *)
(* smart_duplicate_detection, keep what it passed, save.  Nothing between  *)
(* the fetch and the save catches an exception; the handler around the     *)
(* whole run does, and then nothing is saved.                              *)
(***************************************************************************)
DedupOnly == UNCHANGED <<pollVars, asmVars, fnameVars, batchVars, scoreVars, fileVars, sessionVars, callVars, taskVars>>

DedupInit ==
    /\ d_pc = "start"
    /\ new_calls \in SeqsUpTo(NewCallPool, MaxNew)
    /\ db_calls \in SeqsUpTo(ExistingCallPool, MaxExisting)
    /\ existing_calls = <<>>
    /\ detection_result = NoDetection
    /\ all_calls = new_calls
    /\ saved = Absent

\* if processing_results.get('all_calls') and len(...) > 0: ... else straight on
EnterSecondLayer ==
    /\ d_pc = "start"
    /\ d_pc' = IF all_calls # <<>> THEN "fetch" ELSE "save"
    /\ UNCHANGED <<new_calls, db_calls, existing_calls, detection_result, all_calls, saved>>
    /\ DedupOnly

\* db_manager.get_recent_call_records(...): the rows, or the database error
\* left after the wrapper's retries.
GetRecentCallRecords ==
    /\ d_pc = "fetch"
    /\ \E db_ok \in BOOLEAN :
          IF db_ok
          THEN /\ existing_calls' = db_calls
               /\ d_pc' = "detect"
          ELSE /\ existing_calls' = existing_calls
               /\ d_pc' = "aborted"
    /\ UNCHANGED <<new_calls, db_calls, detection_result, all_calls, saved>>
    /\ DedupOnly

KeepEveryCall(r) ==
    /\ detection_result' = r
    /\ all_calls' = all_calls
    /\ d_pc' = "save"

\* The update of processing_results from the detection result r.
KeepProcessed(r) ==
    /\ detection_result' = r
    /\ all_calls' = IF r.process_count > 0 THEN r.processed_calls ELSE <<>>
    /\ d_pc' = "save"

\* smart_duplicate_detection(...) and the update of processing_results
SmartDuplicateDetection ==
    /\ d_pc = "detect"
    /\ IF DetectionRaises(all_calls, existing_calls)
       THEN /\ d_pc' = "aborted"
            /\ UNCHANGED <<detection_result, all_calls>>
       ELSE KeepProcessed(smart_duplicate_detection(all_calls, existing_calls))
    /\ UNCHANGED <<new_calls, db_calls, existing_calls, saved>>
    /\ DedupOnly

\* prepare_database_update_data + save_image_analysis_data
SaveImageAnalysis ==
    /\ d_pc = "save"
    /\ saved' = Some([i \in DOMAIN all_calls |-> StoredImageCall(all_calls[i])])
    /\ d_pc' = "done"
    /\ UNCHANGED <<new_calls, db_calls, existing_calls, detection_result, all_calls>>
    /\ DedupOnly

DedupNext ==
    \/ EnterSecondLayer
    \/ GetRecentCallRecords
    \/ SmartDuplicateDetection
    \/ SaveImageAnalysis

InitDedup == DedupInit /\ PollIdle /\ AsmIdle /\ FnameIdle /\ BatchIdle /\ ScoreIdle /\ FileIdle /\ SessionIdle /\ CallIdle /\ TaskIdle

SpecDedup == InitDedup /\ [][DedupNext]_vars

\* max() of the totals of one new call over the existing records, 0 if none
BestTotal(new_call, existing) ==
    LET totals == {calculate_similarity(new_call, existing[j]) : j \in DOMAIN existing} \cup {0}
    IN  CHOOSE t \in totals : \A u \in totals : t >= u

Detected == d_pc \in {"save", "done"} /\ new_calls # <<>>

\* C8: after smart_duplicate_detection, a new record is among the skipped ones
\* if and only if its highest total over all existing records is >= 0.70
\* (exactly 0.70 skipped, 0.69 passed), in the order of the batch; the record
\* reported as matched_call attains that highest total and the reported
\* similarity is that total; with no existing records every new record passes.
C8_DuplicateIffBestAtLeastThreshold ==
    Detected =>
        LET dup(c) == BestTotal(c, existing_calls) >= 42000
            r == detection_result
        IN  /\ r.processed_calls = SelectSeq(new_calls, LAMBDA c : ~dup(c))
            /\ [i \in DOMAIN r.skipped_calls |-> r.skipped_calls[i].call]
                 = SelectSeq(new_calls, LAMBDA c : dup(c))
            /\ \A i \in DOMAIN r.skipped_calls :
                  LET k == r.skipped_calls[i] IN
                  /\ k.similarity = BestTotal(k.call, existing_calls)
                  /\ \E j \in DOMAIN existing_calls :
                        /\ existing_calls[j] = k.matched_call
                        /\ calculate_similarity(k.call, k.matched_call) = k.similarity
            /\ existing_calls = <<>> => r.processed_calls = new_calls

\* A run that met a best total of exactly 0.70 (skipped) and one of exactly
\* 0.69 (passed), with two existing records of which the second is the best.
C8_Witness ==
    /\ d_pc = "done"
    /\ Len(existing_calls) = 2
    /\ new_calls = <<CallAtThreshold, CallBelowThreshold>>
    /\ BestTotal(new_calls[1], existing_calls) = 42000
    /\ BestTotal(new_calls[2], existing_calls) = 41400
    /\ calculate_similarity(new_calls[1], existing_calls[1]) < 42000
    /\ detection_result.skip_count = 1
    /\ detection_result.process_count = 1

\* C9: an exception anywhere in duplicate detection leaves every record of the
\* batch treated as new and persisted; here for the content-similarity layer:
\* a run that an exception took out of the second layer has saved all the
\* records it recognised.
C9_ContentLayerFailsOpen ==
    d_pc = "aborted" =>
        saved = Some([i \in DOMAIN new_calls |-> StoredImageCall(new_calls[i])])

(***************************************************************************)
(* Duplicate detection, layer 1: exact filename match                      *)
(***************************************************************************)
MaxFiles == 2
MaxRows == 2

\* days_back=30 passed by check_image_duplicates
days_back == 30

Salespersons == {1, 2}
salesperson_id == 1
Filenames == {"a.png", "A.png", "b.png"}
\* ages of persisted rows in days: NOW() - created_at
RowAges == {1, 30, 31}
RowPool == [salesperson_id : Salespersons, original_filename : {"a.png", "b.png"},
            age : RowAges]

InWindowStrict(age) == age < days_back
\* created_at >= NOW() - INTERVAL 'days_back days'
InWindow(age) == age <= days_back

\* The SELECT of check_duplicate_filenames, before ORDER BY.
SelectExisting(rows, sp, filenames) ==
    {r \in rows : /\ r.salesperson_id = sp
                  /\ \E i \in DOMAIN filenames : filenames[i] = r.original_filename
                  /\ InWindow(r.age)}

\* ORDER BY created_at DESC: youngest first
RECURSIVE OrderByCreatedDesc(_)
OrderByCreatedDesc(rows) ==
    IF rows = {} THEN <<>>
    ELSE LET r == CHOOSE x \in rows : \A y \in rows : x.age <= y.age
         IN  <<r>> \o OrderByCreatedDesc(rows \ {r})

\* The loop that builds existing_files_dict: filename -> age of the kept upload.
RECURSIVE BuildExistingDict(_, _, _)
BuildExistingDict(existing_files, i, dict) ==
    IF i > Len(existing_files) THEN dict
    ELSE LET filename == existing_files[i].original_filename
             upload_age == existing_files[i].age
         IN  IF filename \notin DOMAIN dict \/ upload_age < dict[filename]
             THEN BuildExistingDict(existing_files, i + 1,
                     [f \in DOMAIN dict \cup {filename} |->
                         IF f = filename THEN upload_age ELSE dict[f]])
             ELSE BuildExistingDict(existing_files, i + 1, dict)

\* The loop that classifies each filename.
RECURSIVE ClassifyFilenames(_, _, _, _, _)
ClassifyFilenames(filenames, i, dict, duplicates, new_files) ==
    IF i > Len(filenames) THEN [duplicates |-> duplicates, new_files |-> new_files]
    ELSE IF filenames[i] \in DOMAIN dict
    THEN ClassifyFilenames(filenames, i + 1, dict,
             Append(duplicates, [filename |-> filenames[i], days_ago |-> dict[filenames[i]]]),
             new_files)
    ELSE ClassifyFilenames(filenames, i + 1, dict, duplicates, Append(new_files, filenames[i]))

check_duplicate_filenames(rows, sp, filenames) ==
    IF filenames = <<>> THEN NoDuplicateResult
    ELSE LET existing_files == OrderByCreatedDesc(SelectExisting(rows, sp, filenames))
             existing_files_dict == BuildExistingDict(existing_files, 1, <<>>)
         IN  ClassifyFilenames(filenames, 1, existing_files_dict, <<>>, <<>>)

\* x in list
InSeq(x, list) == \E i \in DOMAIN list : list[i] = x

FnameOnly == UNCHANGED <<pollVars, asmVars, dedupVars, batchVars, scoreVars, fileVars, sessionVars, callVars, taskVars>>

FnameInit ==
    /\ f_pc = "start"
    /\ uploaded_images \in SeqsUpTo(Filenames, MaxFiles)
    /\ call_details_rows \in {rows \in SUBSET RowPool : Cardinality(rows) <= MaxRows}
    /\ duplicate_result = NoDuplicateResult
    /\ image_result = NoImageResult
    /\ filtered_images = Absent

\* check_image_duplicates with no uploaded image: the early return
CheckNoImages ==
    /\ f_pc = "start"
    /\ uploaded_images = <<>>
    /\ image_result' = [NoImageResult EXCEPT !.clean_files = uploaded_images]
    /\ f_pc' = "filter"
    /\ UNCHANGED <<uploaded_images, call_details_rows, duplicate_result, filtered_images>>
    /\ FnameOnly

\* check_image_duplicates: the database call returns, or raises into the
\* except branch that returns every file as clean.
CheckImageDuplicates ==
    /\ f_pc = "start"
    /\ uploaded_images # <<>>
    /\ \E db_ok \in BOOLEAN :
          IF db_ok
          THEN LET r == check_duplicate_filenames(call_details_rows, salesperson_id,
                                                  uploaded_images)
                   duplicate_filenames == [i \in DOMAIN r.duplicates |-> r.duplicates[i].filename]
               IN  /\ duplicate_result' = r
                   /\ image_result' =
                        [has_duplicates |-> Len(r.duplicates) > 0,
                         duplicates |-> r.duplicates,
                         new_files |-> r.new_files,
                         duplicate_files |->
                            SelectSeq(uploaded_images, LAMBDA n : InSeq(n, duplicate_filenames)),
                         clean_files |->
                            SelectSeq(uploaded_images, LAMBDA n : InSeq(n, r.new_files)),
                         error |-> FALSE]
          ELSE /\ duplicate_result' = duplicate_result
               /\ image_result' =
                    [has_duplicates |-> FALSE, duplicates |-> <<>>,
                     new_files |-> uploaded_images, duplicate_files |-> <<>>,
                     clean_files |-> uploaded_images, error |-> TRUE]
    /\ f_pc' = "filter"
    /\ UNCHANGED <<uploaded_images, call_details_rows, filtered_images>>
    /\ FnameOnly

UserChoices == {"skip_duplicates", "force_all", "none"}

\* filter_duplicate_images
FilterDuplicateImages ==
    /\ f_pc = "filter"
    /\ \E user_choice \in UserChoices :
          filtered_images' =
             Some(IF user_choice = "skip_duplicates" THEN image_result.clean_files
                  ELSE IF user_choice = "force_all" THEN uploaded_images
                  ELSE IF ~image_result.has_duplicates THEN uploaded_images
                  ELSE <<>>)
    /\ f_pc' = "done"
    /\ UNCHANGED <<uploaded_images, call_details_rows, duplicate_result, image_result>>
    /\ FnameOnly

FnameNext ==
    \/ CheckNoImages
    \/ CheckImageDuplicates
    \/ FilterDuplicateImages

InitFname == FnameInit /\ PollIdle /\ AsmIdle /\ DedupIdle /\ BatchIdle /\ ScoreIdle /\ FileIdle /\ SessionIdle /\ CallIdle /\ TaskIdle

SpecFname == InitFname /\ [][FnameNext]_vars

\* The persisted rows a filename matches: same salesperson, equal name, in the window.
MatchingRows(name) ==
    {r \in call_details_rows :
        r.salesperson_id = salesperson_id /\ r.original_filename = name /\ r.age <= 30}

Checked == f_pc \in {"filter", "done"}

Occurrences(x, list) == Cardinality({i \in DOMAIN list : list[i] = x})

\* C10: check_duplicate_filenames puts every candidate filename in exactly one
\* of duplicates / new_files; a filename is a duplicate exactly when a row of
\* the same salesperson with the equal filename lies within the 30-day window,
\* and the reported upload is the most recent such row; check_image_duplicates
\* then splits the uploaded files into duplicate_files and clean_files, no file
\* in both and none lost.
C10_FilenamePartition ==
    Checked =>
        LET d == duplicate_result
            isDup(n) == MatchingRows(n) # {}
        IN  /\ ~image_result.error /\ uploaded_images # <<>> =>
                /\ Len(d.duplicates) + Len(d.new_files) = Len(uploaded_images)
                /\ [i \in DOMAIN d.duplicates |-> d.duplicates[i].filename]
                      = SelectSeq(uploaded_images, isDup)
                /\ d.new_files = SelectSeq(uploaded_images, LAMBDA n : ~isDup(n))
                /\ \A i \in DOMAIN d.duplicates :
                      LET e == d.duplicates[i] IN
                      /\ \E r \in MatchingRows(e.filename) : r.age = e.days_ago
                      /\ \A r \in MatchingRows(e.filename) : e.days_ago <= r.age
                /\ image_result.duplicate_files = SelectSeq(uploaded_images, isDup)
            /\ Len(image_result.duplicate_files) + Len(image_result.clean_files)
                  = Len(uploaded_images)
            /\ \A n \in Filenames :
                  /\ Occurrences(n, image_result.duplicate_files)
                        + Occurrences(n, image_result.clean_files)
                        = Occurrences(n, uploaded_images)
                  /\ ~(InSeq(n, image_result.duplicate_files)
                         /\ InSeq(n, image_result.clean_files))

\* Two uploads, one matching a row exactly 30 days old (and an older and a
\* younger row of another salesperson), the other differing only in case.
C10_Witness ==
    /\ f_pc = "done"
    /\ uploaded_images = <<"A.png", "a.png">>
    /\ ~image_result.error
    /\ \E r \in call_details_rows : r.salesperson_id = 1 /\ r.original_filename = "a.png" /\ r.age = 30
    /\ \E r \in call_details_rows : r.salesperson_id = 2 /\ r.age = 1
    /\ image_result.duplicate_files = <<"a.png">>
    /\ image_result.clean_files = <<"A.png">>

(***************************************************************************)
(* One comparison of a recognised call with a stored record, over          *)
(* timestamps that differ in day, am/pm marker, minute and notation, and   *)
(* over records with and without contact and company.                      *)
(***************************************************************************)
TwoDigits(n) == IF n < 10 THEN <<"0">> \o ToDigits(n) ELSE ToDigits(n)

MarkerWord(marker) == IF marker = "none" THEN <<>> ELSE <<marker>>

\* "6月24日 上午9:03" or "2025-06-24 09:03"
RenderStamp(st) ==
    IF st.fmt = "cn"
    THEN <<"6", "yue">> \o ToDigits(st.day) \o <<"ri", " ">> \o MarkerWord(st.marker)
           \o <<"9", ":">> \o TwoDigits(st.minute)
    ELSE <<"2", "0", "2", "5", "-", "0", "6", "-">> \o ToDigits(st.day)
           \o <<" ", "0", "9", ":">> \o TwoDigits(st.minute)

\* "2025-06-24"
RenderDate(st) == <<"2", "0", "2", "5", "-", "0", "6", "-">> \o ToDigits(st.day)

StampDays == {24, 25}
StampMinutes == {0, 3, 5, 10, 15, 20}
Stamps ==
    [fmt : {"cn"}, day : StampDays, marker : {"none", "shangwu", "xiawu"},
     minute : StampMinutes]
      \cup [fmt : {"iso"}, day : StampDays, marker : {"none"}, minute : StampMinutes]

FullFields ==
    [contact_info |-> Some(<<"a", "b">>), company_new |-> Some(<<"x", "y">>),
     contact_person |-> Some(<<"a", "b">>), company_existing |-> Some(<<"x", "y">>)]
FieldCombos ==
    [contact_info : {Absent, Some(<<>>), Some(<<"a", "b">>)},
     company_new : {Absent, Some(<<>>), Some(<<"x", "y">>)},
     contact_person : {Absent, Some(<<"a", "b">>)},
     company_existing : {Absent, Some(<<"x", "y">>)}]

\* The recognised call and the stored row of one comparison.
ScoredCall(st, fields) ==
    RecognisedCall(Some(RenderStamp(st)), Some(RenderDate(st)),
                   Some(<<"0", "1", ":", "1", "4">>), Some(74),
                   fields.contact_info, fields.company_new)
ScoredRecord(st, fields) ==
    [StoredImageCall(ScoredCall(st, FullFields)) EXCEPT
        !.contact_person = fields.contact_person,
        !.company_name = fields.company_existing]

ScoreOnly == UNCHANGED <<pollVars, asmVars, dedupVars, fnameVars, batchVars, fileVars, sessionVars, callVars, taskVars>>

ScoreInit ==
    /\ s_pc = "start"
    /\ \/ /\ s_stamp1 \in Stamps
          /\ s_stamp2 \in Stamps
          /\ s_fields = FullFields
       \/ /\ s_stamp1 = NoStamp
          /\ s_stamp2 = NoStamp
          /\ s_fields \in FieldCombos
    /\ s_scores = NoScores

\* The parts of calculate_similarity the comparison reports.
ScoresOf(call1, call2) ==
    [time |-> calculate_time_similarity(call1.call_time, call2.conversation_text),
     duration |-> calculate_duration_similarity(call1.duration_seconds,
                     extract_duration_from_analysis(call2.analysis_text)),
     contact |-> calculate_text_similarity(call1.contact_info, call2.contact_person),
     company |-> calculate_text_similarity(call1.company_name, call2.company_name),
     weights |-> adjust_weights_for_missing_data(
                    [contact_person |-> call1.contact_info,
                     company_name |-> call1.company_name], call2),
     total |-> calculate_similarity(call1, call2)]

ScorePair ==
    /\ s_pc = "start"
    /\ s_scores' = ScoresOf(ScoredCall(s_stamp1, s_fields), ScoredRecord(s_stamp2, s_fields))
    /\ s_pc' = "scored"
    /\ UNCHANGED <<s_stamp1, s_stamp2, s_fields>>
    /\ ScoreOnly

ScoreNext == ScorePair

InitScore == ScoreInit /\ PollIdle /\ AsmIdle /\ DedupIdle /\ FnameIdle /\ BatchIdle /\ FileIdle /\ SessionIdle /\ CallIdle /\ TaskIdle

SpecScore == InitScore /\ [][ScoreNext]_vars

\* Minutes since midnight of the call time a timestamp denotes.
ClockMinutes(st) == (IF st.marker = "xiawu" THEN 12 * 60 ELSE 0) + 9 * 60 + st.minute

\* C11: for two parseable timestamps the time score is 0.0 when the dates
\* differ, and for equal dates the tier of the minute difference of the two
\* call times (0 -> 1.0, <= 3 -> 0.95, <= 5 -> 0.9, <= 10 -> 0.7, <= 15 -> 0.5,
\* else 0.2), also with morning/afternoon markers.  Scores in units of 1/600.
C11_TimeTiers ==
    s_pc = "scored" =>
        LET diff == Abs(ClockMinutes(s_stamp1) - ClockMinutes(s_stamp2)) IN
        s_scores.time =
            IF s_stamp1.day # s_stamp2.day THEN 0
            ELSE IF diff = 0 THEN 600
            ELSE IF diff <= 3 THEN 570
            ELSE IF diff <= 5 THEN 540
            ELSE IF diff <= 10 THEN 420
            ELSE IF diff <= 15 THEN 300
            ELSE 120

\* The weights in hundredths as <<time, duration, contact, company>>.
WeightsUsed == <<s_scores.weights.call_time_match, s_scores.weights.call_duration_match,
                 s_scores.weights.contact_name_match, s_scores.weights.company_name_match>>

\* The weights the rule gives when contact / company count as missing.
RuleWeights(contact_missing, company_missing) ==
    IF contact_missing /\ company_missing THEN <<60, 30, 5, 5>>
    ELSE IF contact_missing THEN <<55, 30, 5, 10>>
    ELSE IF company_missing THEN <<55, 30, 10, 5>>
    ELSE <<50, 30, 10, 10>>

\* A field with no value or an empty one.
Missing(t) == t = Absent \/ t[1] = <<>>

\* C12 as stated: the weights are 0.5 / 0.3 / 0.1 / 0.1 by default, 0.6 / 0.3 /
\* 0.05 / 0.05 when contact and company are both missing on the new record,
\* 0.55 with the missing attribute halved when one of them is missing on the
\* new record; what is missing on the existing record alone changes nothing.
C12_WeightsByNewRecord ==
    s_pc = "scored" =>
        WeightsUsed = RuleWeights(Missing(s_fields.contact_info), Missing(s_fields.company_new))

\* C12 amended: an attribute counts as missing when it has no value (or an
\* empty one) on the new record or on the existing record; with that reading
\* the weights are 0.5 / 0.3 / 0.1 / 0.1 when neither is missing, 0.6 / 0.3 /
\* 0.05 / 0.05 when both are, and 0.55 with the missing attribute halved when
\* exactly one is.
C12_WeightsByEitherRecord ==
    s_pc = "scored" =>
        WeightsUsed = RuleWeights(
            Missing(s_fields.contact_info) \/ Missing(s_fields.contact_person),
            Missing(s_fields.company_new) \/ Missing(s_fields.company_existing))

\* A comparison in which only the existing record lacks the contact.
C12_Witness ==
    /\ s_pc = "scored"
    /\ ~Missing(s_fields.contact_info) /\ ~Missing(s_fields.company_new)
    /\ Missing(s_fields.contact_person) /\ ~Missing(s_fields.company_existing)
    /\ WeightsUsed = <<55, 30, 5, 10>>

(***************************************************************************)
(* Transcription task: process_file, steps 1-3                             *)
(***************************************************************************)

\* max_retries = 60  (60 polls x 5 s)
max_retries == 60

\* Vendor status codes seen by query_task_async; "none" is a response without
\* the X-Api-Status-Code header (query_task_async raises).
StatusComplete == "20000000"
StatusInProgress == {"20000001", "20000002"}
StatusFailed == {"45000001", "55000031"}
StatusCodes == {StatusComplete} \cup StatusInProgress \cup StatusFailed \cup {"none"}

\* while retry_count < max_retries
LoopCondLe(rc) == rc <= max_retries
LoopCond(rc) == rc < max_retries

\* if retry_count >= max_retries  (after the loop)
TimedOutOffByOne(rc) == rc >= max_retries - 1
TimedOut(rc) == rc >= max_retries

\* Classification of one poll response inside the loop.
Classify(code) ==
    IF code = "none" THEN "raise"
    ELSE IF code = StatusComplete THEN "complete"
    ELSE IF code \notin StatusInProgress THEN "failed"
    ELSE "in-progress"

Terminal(c) ==
    IF classified = <<>> THEN /\ classified' = <<c>>
                              /\ pollsAtTerminal' = polls'
    ELSE /\ classified' = Append(classified, c)
         /\ UNCHANGED pollsAtTerminal

\* The steps of the transcription task touch no other part of the state.
PollOnly == UNCHANGED <<asmVars, dedupVars, fnameVars, batchVars, scoreVars, fileVars, sessionVars, callVars, taskVars>>

PollInit ==
    /\ pc = "upload"
    /\ retry_count = 0
    /\ polls = 0
    /\ status_code = ""
    /\ classified = <<>>
    /\ pollsAtTerminal = 0
    /\ result = "none"

\* file_url = await upload_to_tos_async(file_to_upload); an exception goes to
\* the handler of process_file, which returns an error result.
Upload ==
    /\ pc = "upload"
    /\ PollOnly
    /\ \E ok \in BOOLEAN :
         IF ok THEN pc' = "submit" /\ result' = result
         ELSE pc' = "done" /\ result' = "error:exception"
    /\ UNCHANGED <<retry_count, polls, status_code, classified, pollsAtTerminal>>

\* submit_result = await submit_task_async(session, file_url); it raises unless
\* the response header X-Api-Status-Code is 20000000.
Submit ==
    /\ pc = "submit"
    /\ PollOnly
    /\ \E ok \in BOOLEAN :
         IF ok THEN pc' = "loop" /\ result' = result
         ELSE pc' = "done" /\ result' = "error:exception"
    /\ UNCHANGED <<retry_count, polls, status_code, classified, pollsAtTerminal>>

\* Evaluation of the while condition.
LoopTest ==
    /\ pc = "loop"
    /\ PollOnly
    /\ pc' = IF LoopCond(retry_count) THEN "query" ELSE "after_loop"
    /\ UNCHANGED <<retry_count, polls, status_code, classified, pollsAtTerminal, result>>

\* One loop body: query_task_async and the if/elif/else on status_code.
Query ==
    /\ pc = "query"
    /\ PollOnly
    /\ \E code \in StatusCodes :
        /\ polls' = polls + 1
        /\ status_code' = code
        /\ LET c == Classify(code) IN
           CASE c = "complete" ->
                  /\ Terminal("COMPLETED")
                  /\ pc' = "after_loop"
                  /\ UNCHANGED <<retry_count, result>>
             [] c = "failed" ->
                  /\ Terminal("FAILED")
                  /\ pc' = "done"
                  /\ result' = "error:failed"
                  /\ UNCHANGED retry_count
             [] c = "in-progress" ->
                  /\ retry_count' = retry_count + 1
                  /\ pc' = "sleep"
                  /\ UNCHANGED <<classified, pollsAtTerminal, result>>
             [] c = "raise" ->
                  /\ pc' = "done"
                  /\ result' = "error:exception"
                  /\ UNCHANGED <<retry_count, classified, pollsAtTerminal>>

\* await asyncio.sleep(5)
Sleep ==
    /\ pc = "sleep"
    /\ PollOnly
    /\ pc' = "loop"
    /\ UNCHANGED <<retry_count, polls, status_code, classified, pollsAtTerminal, result>>

\* The timeout check that follows the loop, on both ways out of it.
AfterLoop ==
    /\ pc = "after_loop"
    /\ PollOnly
    /\ UNCHANGED <<retry_count, polls, status_code>>
    /\ IF TimedOut(retry_count)
       THEN /\ Terminal("TIMEOUT")
            /\ pc' = "done"
            /\ result' = "error:timeout"
       ELSE /\ pc' = "assemble"
            /\ UNCHANGED <<classified, pollsAtTerminal, result>>

\* Steps 4-9: the result payload is processed, saved and analysed; any
\* exception on the way ends in the handler's error result.
Assemble ==
    /\ pc = "assemble"
    /\ PollOnly
    /\ pc' = "done"
    /\ \E ok \in BOOLEAN : result' = IF ok THEN "success" ELSE "error:exception"
    /\ UNCHANGED <<retry_count, polls, status_code, classified, pollsAtTerminal>>

PollNext ==
    \/ Upload
    \/ Submit
    \/ LoopTest
    \/ Query
    \/ Sleep
    \/ AfterLoop
    \/ Assemble

InitPoll == PollInit /\ AsmIdle /\ DedupIdle /\ FnameIdle /\ BatchIdle /\ ScoreIdle /\ FileIdle /\ SessionIdle /\ CallIdle /\ TaskIdle

SpecPoll == InitPoll /\ [][PollNext]_vars

\* C1: 59 in-progress answers followed by "complete" on the 60th poll end in
\* COMPLETED on the success path; 60 in-progress answers end in TIMEOUT with the
\* timeout error result, never in COMPLETED, and no 61st poll is issued.
C1_PollBoundary ==
    /\ (polls = max_retries /\ retry_count = max_retries - 1
            /\ status_code = StatusComplete)
         => /\ classified = <<"COMPLETED">>
            /\ pc \in {"after_loop", "assemble", "done"}
            /\ result \notin {"error:timeout", "error:failed"}
    /\ retry_count >= max_retries
         => /\ retry_count = max_retries
            /\ polls = max_retries
            /\ status_code \in StatusInProgress
            /\ classified \in {<<>>, <<"TIMEOUT">>}
            /\ pc \in {"sleep", "loop", "after_loop", "done"}
            /\ (pc = "done" => classified = <<"TIMEOUT">> /\ result = "error:timeout")

C1_Witness ==
    /\ polls = max_retries
    /\ retry_count = max_retries - 1
    /\ status_code = StatusComplete
    /\ classified = <<"COMPLETED">>
    /\ result = "success"

\* C2: a task reaches at most one of COMPLETED, FAILED, TIMEOUT, and no
\* query_task_async poll is issued after the first terminal classification.
C2_OneTerminalNoPollAfter ==
    /\ Len(classified) <= 1
    /\ classified # <<>> => polls = pollsAtTerminal

C2_Witness ==
    /\ classified = <<"COMPLETED">>
    /\ pc = "done"
    /\ polls > 1

\* The coroutine is scheduled whenever it can take a step, and every awaited
\* call returns or raises, whatever the vendor answers.
SpecPollFair == InitPoll /\ [][PollNext]_vars /\ WF_vars(PollNext)

\* C24: whatever the vendor answers, a started task ends with a result; at
\* most max_retries polls are issued for it; retry_count moves only on an
\* in-progress answer and counts exactly those; the coroutine sleeps only
\* after an in-progress answer.
C24_BoundedPollingTerminates ==
    /\ [](/\ polls <= max_retries
          /\ retry_count <= polls
          /\ pc = "sleep" => status_code \in StatusInProgress)
    /\ [][retry_count' # retry_count =>
            /\ retry_count' = retry_count + 1
            /\ polls' = polls + 1
            /\ status_code' \in StatusInProgress]_vars
    /\ <>(pc = "done" /\ result # "none")

\* A task the vendor kept in progress to the bound, ended after 60 polls.
C24_Witness ==
    /\ pc = "done"
    /\ polls = max_retries
    /\ retry_count = max_retries
    /\ result = "error:timeout"

(***************************************************************************)
(* Batch orchestration: process_all_files over concurrent process_file     *)
(* coroutines.  Coroutines interleave at their awaits (conversion and      *)
(* upload run in worker threads, submit/query/sleep yield to the loop).    *)
(* A converted file is written to <stem>_converted.wav, so two files of    *)
(* the batch with the same stem share that path.  The polling of one task  *)
(* is modelled in SpecPoll; here it is one step with the task's fate.      *)
(***************************************************************************)
MaxBatch == 2

Extensions == {"aac", "mp3"}
Fates == {"invalid", "conv_fail", "upload_exc", "vendor_fail", "timeout", "ok"}
BatchFiles ==
    {f \in [stem : Stems, ext : Extensions, fate : Fates] :
        f.fate = "conv_fail" => f.ext = "aac"}

\* What process_file returns for the file when it runs alone.
SoloStatus(f) == IF f.fate = "ok" THEN "success" ELSE "error"

BatchOnly == UNCHANGED <<pollVars, asmVars, dedupVars, fnameVars, scoreVars, fileVars, sessionVars, callVars, taskVars>>

BatchInit ==
    /\ temp_files \in SeqsUpTo(BatchFiles, MaxBatch)
    /\ fs = [st \in Stems |-> 0]
    /\ b_pc = [i \in DOMAIN temp_files |-> "start"]
    /\ temp_converted_file = [i \in DOMAIN temp_files |-> FALSE]
    /\ uploaded = [i \in DOMAIN temp_files |-> 0]
    /\ outcome = [i \in DOMAIN temp_files |-> Absent]
    /\ finish_order = <<>>
    /\ done_queue = <<>>
    /\ o_pc = "loop"
    /\ count = 0
    /\ progress = <<>>
    /\ results = <<>>

\* os.remove(temp_converted_file) if it is set and exists
RemoveConverted(i) ==
    IF temp_converted_file[i] THEN [fs EXCEPT ![temp_files[i].stem] = 0] ELSE fs

\* process_file returns a dict: the future completes.
Return(i, status, content) ==
    /\ outcome' = [outcome EXCEPT ![i] = Some([status |-> status, content |-> content])]
    /\ b_pc' = [b_pc EXCEPT ![i] = "returned"]
    /\ finish_order' = Append(finish_order, i)
    /\ done_queue' = Append(done_queue, i)

Orchestrator == <<o_pc, count, progress, results>>

\* existence, size and decode checks, up to the first await
Validate(i) ==
    /\ b_pc[i] = "start"
    /\ IF temp_files[i].fate = "invalid"
       THEN Return(i, "error", 0)
       ELSE /\ b_pc' = [b_pc EXCEPT ![i] = IF temp_files[i].ext = "aac" THEN "convert"
                                           ELSE "upload"]
            /\ UNCHANGED <<outcome, finish_order, done_queue>>
    /\ UNCHANGED <<temp_files, fs, temp_converted_file, uploaded, Orchestrator>>
    /\ BatchOnly

\* convert_aac_to_wav_async: the worker thread replaces <stem>_converted.wav
Convert(i) ==
    /\ b_pc[i] = "convert"
    /\ IF temp_files[i].fate = "conv_fail"
       THEN /\ Return(i, "error", 0)
            /\ UNCHANGED <<fs, temp_converted_file>>
       ELSE /\ fs' = [fs EXCEPT ![temp_files[i].stem] = i]
            /\ temp_converted_file' = [temp_converted_file EXCEPT ![i] = TRUE]
            /\ b_pc' = [b_pc EXCEPT ![i] = "final_check"]
            /\ UNCHANGED <<outcome, finish_order, done_queue>>
    /\ UNCHANGED <<temp_files, uploaded, Orchestrator>>
    /\ BatchOnly

\* if not os.path.exists(file_to_upload): return error
FinalCheck(i) ==
    /\ b_pc[i] = "final_check"
    /\ IF fs[temp_files[i].stem] = 0
       THEN Return(i, "error", 0)
       ELSE /\ b_pc' = [b_pc EXCEPT ![i] = "upload"]
            /\ UNCHANGED <<outcome, finish_order, done_queue>>
    /\ UNCHANGED <<temp_files, fs, temp_converted_file, uploaded, Orchestrator>>
    /\ BatchOnly

\* upload_to_tos_async opens file_to_upload in a worker thread; an exception
\* goes to the handler, which removes the converted file if it exists.
UploadFile(i) ==
    /\ b_pc[i] = "upload"
    /\ IF temp_converted_file[i] /\ fs[temp_files[i].stem] = 0
       THEN /\ Return(i, "error", 0)
            /\ UNCHANGED <<fs, uploaded>>
       ELSE IF temp_files[i].fate = "upload_exc"
       THEN /\ Return(i, "error", 0)
            /\ fs' = RemoveConverted(i)
            /\ UNCHANGED uploaded
       ELSE /\ uploaded' = [uploaded EXCEPT ![i] = IF temp_converted_file[i]
                                                   THEN fs[temp_files[i].stem] ELSE i]
            /\ b_pc' = [b_pc EXCEPT ![i] = "poll"]
            /\ UNCHANGED <<fs, outcome, finish_order, done_queue>>
    /\ UNCHANGED <<temp_files, temp_converted_file, Orchestrator>>
    /\ BatchOnly

\* submit, poll to a terminal state, and on success steps 4-9: vendor failure
\* and timeout remove the converted file, success retains it.
Transcribe(i) ==
    /\ b_pc[i] = "poll"
    /\ IF temp_files[i].fate \in {"vendor_fail", "timeout"}
       THEN /\ Return(i, "error", 0)
            /\ fs' = RemoveConverted(i)
       ELSE /\ Return(i, "success", uploaded[i])
            /\ UNCHANGED fs
    /\ UNCHANGED <<temp_files, temp_converted_file, uploaded, Orchestrator>>
    /\ BatchOnly

LatestCompleted(queue) == Len(queue)
\* Which finished pipeline asyncio.as_completed yields next: the earliest.
NextCompleted(queue) == 1

\* One iteration of `for task in asyncio.as_completed(tasks)`
Collect ==
    /\ o_pc = "loop"
    /\ done_queue # <<>>
    /\ LET k == NextCompleted(done_queue)
           i == done_queue[k]
       IN  /\ count' = count + 1
           /\ progress' = Append(progress, <<count + 1, Len(temp_files)>>)
           /\ results' = Append(results, [file |-> i, status |-> outcome[i][1].status,
                                          content |-> outcome[i][1].content])
           /\ done_queue' = [j \in 1..(Len(done_queue) - 1) |->
                               IF j < k THEN done_queue[j] ELSE done_queue[j + 1]]
    /\ UNCHANGED <<temp_files, fs, b_pc, temp_converted_file, uploaded, outcome,
                   finish_order, o_pc>>
    /\ BatchOnly

\* The loop is exhausted: progress_bar.progress(1.0); return results
ReturnResults ==
    /\ o_pc = "loop"
    /\ count = Len(temp_files)
    /\ o_pc' = "done"
    /\ UNCHANGED <<temp_files, fs, b_pc, temp_converted_file, uploaded, outcome,
                   finish_order, done_queue, count, progress, results>>
    /\ BatchOnly

BatchNext ==
    \/ \E i \in DOMAIN temp_files :
          \/ Validate(i)
          \/ Convert(i)
          \/ FinalCheck(i)
          \/ UploadFile(i)
          \/ Transcribe(i)
    \/ Collect
    \/ ReturnResults

InitBatch == BatchInit /\ PollIdle /\ AsmIdle /\ DedupIdle /\ FnameIdle /\ ScoreIdle /\ FileIdle /\ SessionIdle /\ CallIdle /\ TaskIdle

SpecBatch == InitBatch /\ [][BatchNext]_vars

\* C3: the batch returns exactly one entry per input file, each success or
\* error, and every file's entry is the outcome the file has when it runs
\* alone: no sibling cancels, fails or changes it.
C3_SiblingsIndependent ==
    o_pc = "done" =>
        /\ Len(results) = Len(temp_files)
        /\ \A i \in DOMAIN temp_files : \E k \in DOMAIN results : results[k].file = i
        /\ \A k \in DOMAIN results :
              /\ results[k].status \in {"success", "error"}
              /\ results[k].status = SoloStatus(temp_files[results[k].file])
              /\ results[k].status = "success" => results[k].content = results[k].file

\* C14: no two pipelines of a batch that are running at the same time write,
\* replace or delete the same converted file path: each conversion output has
\* a name of its own, whatever the names of the uploaded files.
C14_NoSharedWorkingPath ==
    \A i, j \in DOMAIN temp_files :
        (/\ i # j
         /\ b_pc[i] # "returned" /\ b_pc[j] # "returned"
         /\ temp_converted_file[i] /\ temp_converted_file[j])
            => temp_files[i].stem # temp_files[j].stem

Strategies == <<"wav", "auto", "aac", "m4a", "mp4", "ogg", "flac", "mp3">>
DecodeOutcomes == {"raise", "short", "invalid", "ok"}

\* if len(audio) > 1000
LongEnough(ms) == ms > 1000

\* What audio.export leaves at output_path after an attempt.
Exported(how, out) ==
    IF how = "ok" THEN "pcm" ELSE IF how = "invalid" THEN "junk" ELSE out

\* How one attempt ends: "true" and "false" are the function's returns, "next"
\* goes on to the following fmt.  The WAV attempt returns True right
\* after the export; automatic detection returns False on a short clip and on
\* an output that fails its check; a codec attempt falls through to the next
\* iteration of the loop.
AttemptEnds(fmt, how) ==
    IF how = "raise" THEN "next"
    ELSE IF fmt = "wav" THEN (IF how = "short" THEN "next" ELSE "true")
    ELSE IF how = "ok" THEN "true"
    ELSE IF fmt = "auto" THEN "false"
    ELSE "next"

\* _try_universal_format_conversion(input_path, output_path): decodes gives
\* the outcome of each strategy on the input; the result carries the return
\* value, the attempts made in order and the content left at output_path.
RECURSIVE TryStrategies(_, _, _, _)
TryStrategies(decodes, k, attempts, out) ==
    IF k > Len(Strategies)
    THEN [success |-> FALSE, tried |-> attempts, output |-> out]
    ELSE IF AttemptEnds(Strategies[k], decodes[k]) = "next"
    THEN TryStrategies(decodes, k + 1,
                       Append(attempts, <<Strategies[k], decodes[k]>>),
                       Exported(decodes[k], out))
    ELSE [success |-> AttemptEnds(Strategies[k], decodes[k]) = "true",
          tried |-> Append(attempts, <<Strategies[k], decodes[k]>>),
          output |-> Exported(decodes[k], out)]

try_universal_format_conversion(decodes) == TryStrategies(decodes, 1, <<>>, "absent")

FileOnly == UNCHANGED <<pollVars, asmVars, dedupVars, fnameVars, batchVars, scoreVars, sessionVars, callVars, taskVars>>

\* Inputs of the chain taken on its own: every combination of outcomes of the
\* automatic detection and of the codecs, the WAV attempt raising or decoding.
ChainInputs ==
    {d \in [DOMAIN Strategies -> DecodeOutcomes] : d[1] \in {"raise", "short", "ok"}}

ChainInit ==
    /\ p_pc = "chain"
    /\ \E d \in ChainInputs :
         audio_file = [ext |-> "aac", exists |-> TRUE, size |-> 2000, probe |-> Absent,
                       silent |-> FALSE, exportable |-> TRUE, decodes |-> d]
    /\ disk = [p \in WorkPaths |-> IF p = "temp_aac" THEN "source" ELSE "absent"]
    /\ tried = <<>>
    /\ converted_file = "none"
    /\ file_to_upload = "none"
    /\ conversion_info = "none"
    /\ steps = <<>>
    /\ p_result = NoResult

\* One call of _try_universal_format_conversion(temp_aac_path, temp_wav_path).
TryUniversalFormatConversion ==
    /\ p_pc = "chain"
    /\ FileOnly
    /\ LET r == try_universal_format_conversion(audio_file.decodes) IN
        /\ tried' = r.tried
        /\ disk' = [disk EXCEPT !["temp_wav"] = r.output]
        /\ steps' = <<[step |-> "convert", how |-> IF r.success THEN "ok" ELSE "false"]>>
    /\ p_pc' = "chain_done"
    /\ UNCHANGED <<audio_file, converted_file, file_to_upload, conversion_info, p_result>>

ChainNext == TryUniversalFormatConversion

InitChain ==
    ChainInit /\ PollIdle /\ AsmIdle /\ DedupIdle /\ FnameIdle /\ BatchIdle /\ ScoreIdle
    /\ SessionIdle /\ CallIdle /\ TaskIdle

SpecChain == InitChain /\ [][ChainNext]_vars

\* C17: the chain tries decode-as-WAV, automatic detection, then aac, m4a,
\* mp4, ogg, flac, mp3 in that order and the first success wins; an attempt
\* that decodes a clip of at most 1000 ms counts as failed and the next
\* strategy is tried; failure is returned only once every strategy was tried.
C17_ShortDecodeContinues ==
    p_pc = "chain_done" =>
        /\ \A k \in DOMAIN tried : tried[k] = <<Strategies[k], audio_file.decodes[k]>>
        /\ \A k \in DOMAIN tried :
             (tried[k][2] = "short" /\ k < Len(Strategies)) => k + 1 \in DOMAIN tried
        /\ steps[1].how = "ok" =>
             /\ tried[Len(tried)][2] = "ok"
             /\ \A k \in 1..(Len(tried) - 1) : tried[k][2] # "ok"
        /\ steps[1].how # "ok" => Len(tried) = Len(Strategies)

(***************************************************************************)
(* process_file on one file.  The file is described by what the checks of  *)
(* the code see: whether it exists, its size in bytes, the duration the    *)
(* first AudioSegment.from_file yields (Absent if it raises), whether the  *)
(* audio is digital silence, whether it is RIFF/WAV inside, and whether    *)
(* its export gives a readable file.                                       *)
(***************************************************************************)
FileExtensions == {"aac", "mp3", "amr"}
CommonExtensions == {"mp3", "wav", "m4a", "ogg"}
ProbeDurations == {50, 500, 5000}

\* What each strategy of the chain yields on the file; automatic detection is
\* the decode process_file has already made, the codec attempts come after it.
DecodesOf(probe, riff, exportable) ==
    LET how == IF probe = Absent THEN "raise"
               ELSE IF ~LongEnough(probe[1]) THEN "short"
               ELSE IF exportable THEN "ok" ELSE "invalid"
    IN  [k \in DOMAIN Strategies |->
            IF Strategies[k] = "wav" THEN (IF riff THEN how ELSE "raise")
            ELSE IF Strategies[k] = "auto" THEN how ELSE "raise"]

AudioFiles ==
    {[ext |-> e, exists |-> x, size |-> sz, probe |-> pr, silent |-> si,
      exportable |-> ex, decodes |-> DecodesOf(pr, ri, ex)] :
        e \in FileExtensions, x \in BOOLEAN, sz \in {0, 2000},
        pr \in {Absent} \cup {Some(d) : d \in ProbeDurations},
        si \in BOOLEAN, ri \in BOOLEAN, ex \in BOOLEAN}

\* A missing file has no size, an empty one does not decode, and one that
\* does not decode has no audio to speak of.
FilePool ==
    {f \in AudioFiles :
        /\ ~f.exists => f.size = 0
        /\ f.size = 0 => f.probe = Absent
        /\ f.probe = Absent => (~f.silent /\ ~f.exportable /\ f.decodes[1] = "raise")}

\* The message of each error result, by its fixed text and its argument.
EmptyMessage == <<"wenjian_weikong">>
TooShortMessage(ms) == <<"yinpin_shichang_guoduan", ms, "ms">>
\* The fixed texts of the other early returns of process_file.
EarlyReturnMessage ==
    [missing |-> <<"wenjian_bucunzai">>,
     invalid |-> <<"yinpin_geshi_wuxiao_huo_sunhuai">>,
     aac_failed |-> <<"AAC_wenjian_zhuanhuan_shibai">>,
     processed_missing |-> <<"chulihou_de_wenjian_bucunzai">>,
     processed_empty |-> <<"chulihou_de_wenjian_weikong">>]
FailedMessage(vendor_message) == <<"zhuanxie_shibai">> \o vendor_message
TimeoutWordedAsFailure == <<"zhuanxie_shibai", "task_failed">>
TimeoutMessage == <<"zhuanxie_renwu_chaoshi", max_retries * 5, "miao">>
ExceptionMessage(what) == <<what>>

TooShortBelow50(duration_ms) == duration_ms < 50
\* if duration_ms < 100
TooShort(duration_ms) == duration_ms < 100

FileInit ==
    /\ p_pc = "start"
    /\ audio_file \in FilePool
    /\ disk = [p \in WorkPaths |-> "absent"]
    /\ tried = <<>>
    /\ converted_file = "none"
    /\ file_to_upload = "none"
    /\ conversion_info = "none"
    /\ steps = <<>>
    /\ p_result = NoResult

\* return {"file_path": ..., "status": ..., "message": ...}
ReturnResult(status, message, info) ==
    /\ p_result' = [status |-> status, message |-> message, conversion_info |-> info]
    /\ p_pc' = "done"

\* if temp_converted_file and os.path.exists(temp_converted_file): os.remove(...)
RemoveTempConverted ==
    disk' = IF converted_file # "none" THEN [disk EXCEPT ![converted_file] = "absent"]
            ELSE disk

\* except Exception as e: remove the converted file, return the error result.
Handler(what) ==
    /\ RemoveTempConverted
    /\ ReturnResult("error", ExceptionMessage(what), "none")

\* The existence, size and decode checks that open process_file.
ValidateFile ==
    /\ p_pc = "start"
    /\ FileOnly
    /\ IF ~audio_file.exists THEN ReturnResult("error", EarlyReturnMessage.missing, "none")
       ELSE IF audio_file.size = 0 THEN ReturnResult("error", EmptyMessage, "none")
       ELSE IF audio_file.probe = Absent THEN ReturnResult("error", EarlyReturnMessage.invalid, "none")
       ELSE IF TooShort(audio_file.probe[1])
       THEN ReturnResult("error", TooShortMessage(audio_file.probe[1]), "none")
       ELSE p_pc' = "convert" /\ UNCHANGED p_result
    /\ UNCHANGED <<audio_file, disk, tried, converted_file, file_to_upload,
                   conversion_info, steps>>

\* _validate_converted_file: the file exists, has at least 1000 bytes, reads
\* as WAV of at least one second and is not silent (max amplitude 0).
ValidConverted(content, silent) == content = "pcm" /\ ~silent

\* final_output_path = os.path.splitext(aac_file_path)[0] + "_converted.wav"
\* and output_path of _convert_to_wav_sync alike.
ConvertedPath == "converted"

\* file_ext == '.aac': convert_aac_to_wav_sync in a worker thread.  The input
\* is copied to temp_aac_<id>.aac and decoded into temp_wav_<id>.wav; on
\* success that file is moved to the converted path and validated there; the
\* finally clause removes the two temporary files.  Any exception makes
\* process_file return the AAC error result.
ConvertAac ==
    /\ p_pc = "convert"
    /\ audio_file.ext = "aac"
    /\ FileOnly
    /\ LET r == try_universal_format_conversion(audio_file.decodes) IN
        /\ tried' = r.tried
        /\ disk' = [p \in WorkPaths |->
                       IF p # ConvertedPath THEN "absent"
                       ELSE IF r.success THEN r.output ELSE disk[p]]
        /\ IF r.success /\ ValidConverted(r.output, audio_file.silent)
           THEN /\ steps' = Append(steps, [step |-> "convert", how |-> "ok"])
                /\ converted_file' = ConvertedPath
                /\ file_to_upload' = "converted"
                /\ p_pc' = "final_check"
                /\ UNCHANGED p_result
           ELSE /\ steps' = Append(steps, [step |-> "convert", how |-> "raise"])
                /\ ReturnResult("error", EarlyReturnMessage.aac_failed, "none")
                /\ UNCHANGED <<converted_file, file_to_upload>>
    /\ UNCHANGED <<audio_file, conversion_info>>

\* file_ext not in ['.mp3', '.wav', '.m4a', '.ogg']: _convert_to_wav_sync in
\* a worker thread exports the decoded audio to the converted path and raises
\* if the exported file is missing, empty, unreadable or too short; the
\* caller then logs a warning and goes on with the original file.
ConvertOther ==
    /\ p_pc = "convert"
    /\ audio_file.ext \notin CommonExtensions \cup {"aac"}
    /\ FileOnly
    /\ disk' = [disk EXCEPT ![ConvertedPath] =
                   IF audio_file.exportable THEN "pcm" ELSE "junk"]
    /\ IF audio_file.exportable
       THEN /\ steps' = Append(steps, [step |-> "convert", how |-> "ok"])
            /\ converted_file' = ConvertedPath
            /\ file_to_upload' = "converted"
       ELSE /\ steps' = Append(steps, [step |-> "convert", how |-> "raise"])
            /\ file_to_upload' = "original"
            /\ UNCHANGED converted_file
    /\ p_pc' = "final_check"
    /\ UNCHANGED <<audio_file, tried, conversion_info, p_result>>

\* else: file_to_upload = file_path
UseOriginal ==
    /\ p_pc = "convert"
    /\ audio_file.ext \in CommonExtensions
    /\ FileOnly
    /\ file_to_upload' = "original"
    /\ p_pc' = "final_check"
    /\ UNCHANGED <<audio_file, disk, tried, converted_file, conversion_info, steps,
                   p_result>>

\* Content of the file about to be uploaded: "source" for the original.
UploadContent ==
    IF file_to_upload = "original"
    THEN (IF ~audio_file.exists THEN "absent"
          ELSE IF audio_file.size = 0 THEN "empty" ELSE "source")
    ELSE disk[ConvertedPath]

\* The last checks before the upload and the conversion_info record.
CheckFileToUpload ==
    /\ p_pc = "final_check"
    /\ FileOnly
    /\ IF UploadContent = "absent"
       THEN /\ ReturnResult("error", EarlyReturnMessage.processed_missing, "none")
            /\ UNCHANGED conversion_info
       ELSE IF UploadContent = "empty"
       THEN /\ ReturnResult("error", EarlyReturnMessage.processed_empty, "none")
            /\ UNCHANGED conversion_info
       ELSE /\ conversion_info' =
                   IF converted_file = "none" THEN "none"
                   ELSE IF disk[converted_file] = "pcm" THEN "true" ELSE "false"
            /\ p_pc' = "upload"
            /\ UNCHANGED p_result
    /\ UNCHANGED <<audio_file, disk, tried, converted_file, file_to_upload, steps>>

Swallowed(how) == FALSE
\* An exception raised by an awaited step leaves the try block for the handler.
Propagates(how) == how = "raise"

\* X-Api-Message of a failed poll, one of them worded like the timeout text.
VendorMessages == {<<>>, <<"task_failed">>, <<"zhuanxie_renwu_chaoshi", 300, "miao">>}

\* 1. file_url = await upload_to_tos_async(file_to_upload)
UploadToTos ==
    /\ p_pc = "upload"
    /\ FileOnly
    /\ \E how \in {"ok", "raise"} :
        /\ steps' = Append(steps, [step |-> "upload", how |-> how])
        /\ IF Propagates(how) THEN Handler("upload")
           ELSE p_pc' = "submit" /\ UNCHANGED <<disk, p_result>>
    /\ UNCHANGED <<audio_file, tried, converted_file, file_to_upload, conversion_info>>

\* 2. submit_result = await submit_task_async(session, file_url): raises when
\* the request fails or the status header is not 20000000.
SubmitTask ==
    /\ p_pc = "submit"
    /\ FileOnly
    /\ \E how \in {"ok", "raise"} :
        /\ steps' = Append(steps, [step |-> "submit", how |-> how])
        /\ IF Propagates(how) THEN Handler("submit")
           ELSE p_pc' = "poll" /\ UNCHANGED <<disk, p_result>>
    /\ UNCHANGED <<audio_file, tried, converted_file, file_to_upload, conversion_info>>

\* 3. The polling loop up to its end (its iterations are those of SpecPoll):
\* the vendor completes, reports a failed status, stays in progress for
\* max_retries polls, or a poll raises.
PollTask ==
    /\ p_pc = "poll"
    /\ FileOnly
    /\ \E how \in {"ok", "failed", "timeout", "raise"} :
        /\ steps' = Append(steps, [step |-> "poll", how |-> how])
        /\ CASE how = "ok" -> p_pc' = "assemble" /\ UNCHANGED <<disk, p_result>>
             [] how = "failed" ->
                  /\ RemoveTempConverted
                  /\ \E m \in VendorMessages : ReturnResult("error", FailedMessage(m), "none")
             [] how = "timeout" ->
                  /\ RemoveTempConverted
                  /\ ReturnResult("error", TimeoutMessage, "none")
             [] how = "raise" -> Handler("poll")
    /\ UNCHANGED <<audio_file, tried, converted_file, file_to_upload, conversion_info>>

\* Steps 4-8 in the order of the code: the transcript is processed and saved
\* (4-7), the duration resolved and the call classified (7.1, 7.2), then
\* llm_workflow is awaited (8).  raised_at names the step that raises, if any.
StepsAfterPoll(raised_at) ==
    IF raised_at = "assemble" THEN <<[step |-> "assemble", how |-> "raise"]>>
    ELSE <<[step |-> "assemble", how |-> "ok"], [step |-> "classify", how |-> "ok"],
           [step |-> "analysis", how |-> IF raised_at = "analysis" THEN "raise" ELSE "ok"]>>

\* Steps 4-9 and the return: with a conversion_info the converted file stays
\* for the caller, without one it is removed; an exception goes to the handler.
AssembleResult ==
    /\ p_pc = "assemble"
    /\ FileOnly
    /\ \E at \in {"assemble", "analysis", "none"} :
        /\ steps' = steps \o StepsAfterPoll(at)
        /\ IF at # "none" THEN Handler(at)
           ELSE IF conversion_info # "none"
           THEN ReturnResult("success", <<>>, conversion_info) /\ UNCHANGED disk
           ELSE RemoveTempConverted /\ ReturnResult("success", <<>>, "none")
    /\ UNCHANGED <<audio_file, tried, converted_file, file_to_upload, conversion_info>>

FileNext ==
    \/ ValidateFile
    \/ ConvertAac
    \/ ConvertOther
    \/ UseOriginal
    \/ CheckFileToUpload
    \/ UploadToTos
    \/ SubmitTask
    \/ PollTask
    \/ AssembleResult

InitFile ==
    FileInit /\ PollIdle /\ AsmIdle /\ DedupIdle /\ FnameIdle /\ BatchIdle /\ ScoreIdle
    /\ SessionIdle /\ CallIdle /\ TaskIdle

SpecFile == InitFile /\ [][FileNext]_vars

\* C13: when process_file has returned, on whatever exit path, every working
\* or converted file the run created is gone from disk, unless the result
\* hands the converted file to the caller (conversion_info with
\* conversion_success true).
C13_WorkingFilesDeleted ==
    p_pc = "done" =>
        \A path \in WorkPaths :
            disk[path] # "absent" =>
                (path = ConvertedPath /\ p_result.conversion_info = "true")

StepCount(name) == Cardinality({k \in DOMAIN steps : steps[k].step = name})

\* C15: an upload that fails, or a submit that is rejected or raises, ends the
\* task: the file's result is an error, the failed step was issued once, and
\* nothing is issued after it (no submit after a failed upload, no poll after
\* a failed upload or submit).
C15_UploadSubmitFailureTerminal ==
    \A k \in DOMAIN steps :
        (steps[k].step \in {"upload", "submit"} /\ steps[k].how = "raise") =>
            /\ k = Len(steps)
            /\ StepCount(steps[k].step) = 1
            /\ StepCount("poll") = 0
            /\ steps[k].step = "upload" => StepCount("submit") = 0
            /\ p_pc = "done"
            /\ p_result.status = "error"

\* A run whose upload went through and whose submit was rejected.
C15_Witness ==
    /\ p_pc = "done"
    /\ Len(steps) >= 2
    /\ steps[Len(steps) - 1] = [step |-> "upload", how |-> "ok"]
    /\ steps[Len(steps)] = [step |-> "submit", how |-> "raise"]
    /\ p_result.status = "error"

\* C16: a 0-byte file and a decodable clip of 50 ms are both rejected: the
\* run ends in an error result without a conversion, an upload or a submit,
\* and the two error messages are non-empty and differ from each other.
C16_EmptyAndShortRejected ==
    (p_pc = "done" /\ audio_file.exists) =>
        /\ audio_file.size = 0 =>
             /\ p_result.status = "error"
             /\ steps = <<>>
             /\ p_result.message # <<>>
             /\ p_result.message # TooShortMessage(50)
        /\ (audio_file.size > 0 /\ audio_file.probe = Some(50)) =>
             /\ p_result.status = "error"
             /\ steps = <<>>
             /\ p_result.message # <<>>
             /\ p_result.message # EmptyMessage

\* The 50 ms clip has been turned away with its own message.
C16_Witness ==
    /\ p_pc = "done"
    /\ audio_file.size > 0
    /\ audio_file.probe = Some(50)
    /\ p_result = [status |-> "error", message |-> TooShortMessage(50),
                   conversion_info |-> "none"]

\* C18: whatever the extension of the file, what process_file uploads and
\* submits is the converted file, in the canonical 16 kHz mono PCM form; no
\* run reaches the upload with audio that was not normalised.
C18_UploadsOnlyNormalised ==
    \A k \in DOMAIN steps :
        steps[k].step = "upload" =>
            /\ file_to_upload = "converted"
            /\ conversion_info = "true"

\* C19: a failed conversion ends the pipeline of the file: the result is an
\* error, the conversion was attempted once, and no upload, submit or poll
\* follows it.
C19_ConversionFailureTerminal ==
    \A k \in DOMAIN steps :
        (steps[k].step = "convert" /\ steps[k].how # "ok") =>
            /\ k = Len(steps)
            /\ StepCount("convert") = 1
            /\ p_pc = "done"
            /\ p_result.status = "error"

ErrorResult(message) ==
    [status |-> "error", message |-> message, conversion_info |-> "none"]

\* C20: the result of a task that ran out of polls is a value no task ended
\* by a vendor failed status can return, whatever the vendor's message, and
\* the result of a failed task is never the timeout value.
C20_TimeoutDistinctFromFailed ==
    (p_pc = "done" /\ steps # <<>> /\ steps[Len(steps)].step = "poll") =>
        /\ steps[Len(steps)].how = "timeout" =>
             \A m \in VendorMessages : p_result # ErrorResult(FailedMessage(m))
        /\ steps[Len(steps)].how = "failed" =>
             p_result # ErrorResult(TimeoutMessage)

\* A task that ended on the attempt bound, with the timeout result.
C20_Witness ==
    /\ p_pc = "done"
    /\ steps # <<>>
    /\ steps[Len(steps)] = [step |-> "poll", how |-> "timeout"]
    /\ p_result = ErrorResult(TimeoutMessage)

(***************************************************************************)
(* The audio run of main.py around process_file: after the batch returned, *)
(* the finally clause notes every converted file a successful result       *)
(* retained in st.session_state.converted_files_cleanup; then the session  *)
(* goes on until it ends.  No other code reads that list.                  *)
(***************************************************************************)
SessionInit ==
    /\ m_pc = "processing"
    /\ converted_files_cleanup = <<>>

\* finally: collect the converted files of the successful results and extend
\* st.session_state.converted_files_cleanup with them.
RecordConvertedFiles ==
    /\ m_pc = "processing"
    /\ p_pc = "done"
    /\ converted_files_cleanup' =
           IF /\ p_result.status = "success"
              /\ p_result.conversion_info = "true"
              /\ disk[ConvertedPath] # "absent"
           THEN Append(converted_files_cleanup, ConvertedPath)
           ELSE converted_files_cleanup
    /\ m_pc' = "session"
    /\ UNCHANGED <<pollVars, asmVars, dedupVars, fnameVars, batchVars, scoreVars, fileVars,
                   callVars, taskVars>>

\* The user closes the page or the process exits: nothing is registered to
\* run at that point.
EndSession ==
    /\ m_pc = "session"
    /\ m_pc' = "ended"
    /\ UNCHANGED converted_files_cleanup
    /\ UNCHANGED <<pollVars, asmVars, dedupVars, fnameVars, batchVars, scoreVars, fileVars,
                   callVars, taskVars>>

\* A step of process_file inside the run.
ProcessFileStep == FileNext /\ UNCHANGED sessionVars

SessionNext ==
    \/ ProcessFileStep
    \/ RecordConvertedFiles
    \/ EndSession

InitSession ==
    FileInit /\ SessionInit /\ PollIdle /\ AsmIdle /\ DedupIdle /\ FnameIdle /\ BatchIdle
    /\ ScoreIdle /\ CallIdle /\ TaskIdle

\* Every step of the run is taken once it can be; the session ends.
SpecSession == InitSession /\ [][SessionNext]_vars /\ WF_vars(SessionNext)

\* C21: a converted file retained for the user after a successful run
\* (conversion_success true, path noted in converted_files_cleanup) is
\* eventually deleted: it is gone once the session has ended.
C21_RetainedFileEventuallySwept ==
    (InSeq(ConvertedPath, converted_files_cleanup)) ~> (disk[ConvertedPath] = "absent")

(***************************************************************************)
(* calculate_duration_similarity on its own, over every pair of durations  *)
(* up to MaxSeconds seconds, either of them possibly missing.              *)
(***************************************************************************)
MaxSeconds == 35

Durations == {Absent} \cup {Some(d) : d \in 0..MaxSeconds}

CallOnly ==
    UNCHANGED <<pollVars, asmVars, dedupVars, fnameVars, batchVars, scoreVars, fileVars,
                sessionVars, taskVars>>

DurationSimInit ==
    /\ x_pc = "call"
    /\ x_args \in Durations \X Durations
    /\ x_value = <<>>

\* duration_sim = calculate_duration_similarity(duration1, duration2), and
\* the same call with the arguments exchanged.
CallDurationSimilarity ==
    /\ x_pc = "call"
    /\ x_value' = <<calculate_duration_similarity(x_args[1], x_args[2]),
                    calculate_duration_similarity(x_args[2], x_args[1])>>
    /\ x_pc' = "returned"
    /\ UNCHANGED x_args
    /\ CallOnly

InitDurationSim ==
    DurationSimInit /\ PollIdle /\ AsmIdle /\ DedupIdle /\ FnameIdle /\ BatchIdle
    /\ ScoreIdle /\ FileIdle /\ SessionIdle /\ TaskIdle

SpecDurationSim == InitDurationSim /\ [][CallDurationSimilarity]_vars

\* C23: the duration score is 0.0 when either duration is missing, else the
\* tier of the difference d in seconds: 0 -> 1.0, <= 3 -> 0.95, <= 5 -> 0.9,
\* <= 10 -> 0.8, <= 15 -> 0.6, <= 30 -> 0.4, else 0.1; it is the same with the
\* arguments exchanged, and a larger difference never scores higher.
\* Scores in units of 1/600.
C23_DurationTiers ==
    x_pc = "returned" =>
        /\ x_value[1] = x_value[2]
        /\ (x_args[1] = Absent \/ x_args[2] = Absent) => x_value[1] = 0
        /\ (x_args[1] # Absent /\ x_args[2] # Absent) =>
             LET d == Abs(x_args[1][1] - x_args[2][1]) IN
             /\ x_value[1] = IF d = 0 THEN 600 ELSE IF d <= 3 THEN 570
                             ELSE IF d <= 5 THEN 540 ELSE IF d <= 10 THEN 480
                             ELSE IF d <= 15 THEN 360 ELSE IF d <= 30 THEN 240
                             ELSE 60
             /\ \A e \in d..MaxSeconds :
                  calculate_duration_similarity(Some(0), Some(e)) <= x_value[1]

\* Two durations 31 seconds apart, scored 0.1.
C23_Witness ==
    /\ x_pc = "returned"
    /\ x_args = <<Some(2), Some(33)>>
    /\ x_value = <<60, 60>>

\* The steps of one pipeline in the order the claim gives them.
StepRank(name) ==
    CASE name = "convert" -> 1 [] name = "upload" -> 2 [] name = "submit" -> 3
      [] name = "poll" -> 4 [] name = "assemble" -> 5 [] name = "classify" -> 6
      [] name = "analysis" -> 7

\* C25: the steps of one file's pipeline happen in the order normalise,
\* upload, submit, poll, assemble, classify, analysis; a step is started only
\* when every step before it has completed successfully; the analysis is
\* called only after a poll that found the task completed.
C25_StrictStepOrder ==
    /\ \A k \in DOMAIN steps :
         \A j \in 1..(k - 1) :
            /\ StepRank(steps[j].step) < StepRank(steps[k].step)
            /\ steps[j].how = "ok"
    /\ \A k \in DOMAIN steps :
         steps[k].step = "analysis" =>
            \E j \in 1..(k - 1) : steps[j] = [step |-> "poll", how |-> "ok"]

(***************************************************************************)
(* save_to_txt, the speaker lines: each utterance carries a vendor speaker *)
(* id or none; the dict speakers maps ids to labels spk1, spk2, ... in     *)
(* insertion order, kept here as the sequence of its keys.                 *)
(***************************************************************************)
MaxSpoken == 4

\* additions.speaker as the vendor sends it; Absent: the key is missing.
SpeakerIds == {"1", "2", "7"}
UtteranceSpeakers == SeqsUpTo({Absent} \cup {Some(id) : id \in SpeakerIds}, MaxSpoken)

\* utterance.get('additions', {}).get('speaker', '1')
GetSpeaker(utterance) == IF utterance = Absent THEN "1" ELSE utterance[1]

NextLabelFromZero(speakers) == Len(speakers)
\* f"spk{len(speakers) + 1}", as the number after spk
NextLabel(speakers) == Len(speakers) + 1

\* The first loop: speakers after utterances k.., keys in insertion order.
RECURSIVE BuildSpeakers(_, _, _)
BuildSpeakers(utterances, k, speakers) ==
    IF k > Len(utterances) THEN speakers
    ELSE BuildSpeakers(utterances, k + 1,
            IF \E n \in DOMAIN speakers : speakers[n].id = GetSpeaker(utterances[k])
            THEN speakers
            ELSE Append(speakers, [id |-> GetSpeaker(utterances[k]),
                                   label |-> NextLabel(speakers)]))

\* speakers.get(speaker_id, "spk1")
LabelOf(speakers, speaker_id) ==
    IF \E n \in DOMAIN speakers : speakers[n].id = speaker_id
    THEN (CHOOSE e \in {speakers[n] : n \in DOMAIN speakers} : e.id = speaker_id).label
    ELSE 1

\* The second loop: the label written in front of each utterance.
SpkPrefixes(utterances) ==
    [k \in DOMAIN utterances |->
        LabelOf(BuildSpeakers(utterances, 1, <<>>), GetSpeaker(utterances[k]))]

SpeakersInit ==
    /\ x_pc = "call"
    /\ x_args \in UtteranceSpeakers
    /\ x_value = <<>>

\* save_to_txt(processed_result, output_file_path), its speaker lines.
SaveToTxt ==
    /\ x_pc = "call"
    /\ x_value' = SpkPrefixes(x_args)
    /\ x_pc' = "returned"
    /\ UNCHANGED x_args
    /\ CallOnly

InitSpeakers ==
    SpeakersInit /\ PollIdle /\ AsmIdle /\ DedupIdle /\ FnameIdle /\ BatchIdle
    /\ ScoreIdle /\ FileIdle /\ SessionIdle /\ TaskIdle

SpecSpeakers == InitSpeakers /\ [][SaveToTxt]_vars

\* The speaker an utterance is attributed to: its vendor id, and the default
\* speaker "1" for an utterance that carries none.
SpokenBy == [k \in DOMAIN x_args |-> IF x_args[k] = Absent THEN "1" ELSE x_args[k][1]]

\* Index of the first utterance of the speaker of utterance k.
FirstSpoken(k) == CHOOSE j \in 1..k : SpokenBy[j] = SpokenBy[k] /\
                                       \A i \in 1..(j - 1) : SpokenBy[i] # SpokenBy[k]

\* The vendor ids renamed one-to-one.
Renamings == {f \in [SpeakerIds -> SpeakerIds] : \A a, b \in SpeakerIds : f[a] = f[b] => a = b}

\* C26: the label of an utterance is the ordinal of its speaker in order of
\* first appearance (first-seen speaker 1, second-seen 2, ...); two
\* utterances have the same label exactly when they have the same speaker;
\* renaming the vendor's ids leaves every label as it is.
C26_SpeakerLabelsByFirstAppearance ==
    x_pc = "returned" =>
        /\ DOMAIN x_value = DOMAIN x_args
        /\ \A k \in DOMAIN x_args :
             x_value[k] = Cardinality({SpokenBy[j] : j \in 1..FirstSpoken(k)})
        /\ \A j, k \in DOMAIN x_args :
             (SpokenBy[j] = SpokenBy[k]) <=> (x_value[j] = x_value[k])
        /\ (\A k \in DOMAIN x_args : x_args[k] # Absent) =>
             \A f \in Renamings :
                SpkPrefixes([k \in DOMAIN x_args |-> Some(f[x_args[k][1]])]) = x_value

\* Speakers 7, 2, 7, 1 in that order are labelled 1, 2, 1, 3.
C26_Witness ==
    /\ x_pc = "returned"
    /\ x_args = <<Some("7"), Some("2"), Some("7"), Some("1")>>
    /\ x_value = <<1, 2, 1, 3>>

(***************************************************************************)
(* calculate_time_similarity on its own, over pairs of time strings most   *)
(* of which hold no date and time that parse_datetime finds.               *)
(***************************************************************************)
TimeTexts ==
    { <<"z", "u", "o">>,
      <<"z", " ", "u", "o">>,
      <<"z", "u", "x">>,
      <<"a", "b", "c">>,
      <<"z", "u">>,
      <<" ", "z", "u", "o", "NL">>,
      <<"6", "yue", "2", "4", "ri", " ", "1", "1", ":", "1", "4">>,
      <<"6", "yue", "2", "4", "ri", " ", "1", "1", ":", "1", "x">>,
      <<"6", "yue", "2", "4", "ri", " ", "1", "1", ":", "2", "0">> }

TimeArgs == {Absent, Some(<<>>)} \cup {Some(t) : t \in TimeTexts}

TimeSimInit ==
    /\ x_pc = "call"
    /\ x_args \in TimeArgs \X TimeArgs
    /\ x_value = <<>>

\* time_sim = calculate_time_similarity(time1, time2)
CallTimeSimilarity ==
    /\ x_pc = "call"
    /\ x_value' = <<calculate_time_similarity(x_args[1], x_args[2])>>
    /\ x_pc' = "returned"
    /\ UNCHANGED x_args
    /\ CallOnly

InitTimeSim ==
    TimeSimInit /\ PollIdle /\ AsmIdle /\ DedupIdle /\ FnameIdle /\ BatchIdle
    /\ ScoreIdle /\ FileIdle /\ SessionIdle /\ TaskIdle

SpecTimeSim == InitTimeSim /\ [][CallTimeSimilarity]_vars

\* Both strings are given, they differ after normalisation, and no date and
\* time is parsed out of at least one of them.
ParseFailed ==
    /\ \A k \in 1..2 : x_args[k] # Absent /\ x_args[k][1] # <<>>
    /\ NormalizeTime(x_args[1][1]) # NormalizeTime(x_args[2][1])
    /\ \E k \in 1..2 : parse_datetime(NormalizeTime(x_args[k][1])) = Absent

\* The two normalised strings without their spaces are equal.
EqualWithoutSpaces ==
    SelectSeq(NormalizeTime(x_args[1][1]), LAMBDA c : c # " ")
        = SelectSeq(NormalizeTime(x_args[2][1]), LAMBDA c : c # " ")

\* The two normalised strings have the same length in characters and differ
\* in at most two positions.
NearlyEqual ==
    LET a == Spell(NormalizeTime(x_args[1][1]))
        b == Spell(NormalizeTime(x_args[2][1]))
    IN  Len(a) = Len(b) /\ Cardinality({i \in DOMAIN a : a[i] # b[i]}) <= 2

\* C27 as stated: a call with a null or empty time scores 0.0; when parsing
\* fails on either side the score is 0.95 if the strings are equal after
\* whitespace removal and 0 otherwise.  Scores in units of 1/600.
C27_FallbackIsEqualityOnly ==
    x_pc = "returned" =>
        /\ (\E k \in 1..2 : x_args[k] = Absent \/ x_args[k][1] = <<>>) => x_value[1] = 0
        /\ ParseFailed => x_value[1] = IF EqualWithoutSpaces THEN 570 ELSE 0

\* C27 amended: a call with a null or empty time scores 0.0; when parsing
\* fails on either side the score is 0.95 if the strings are equal after
\* whitespace removal, else 0.8 if they have the same length and differ in at
\* most two characters, and 0 otherwise.  Scores in units of 1/600.
C27_FallbackEqualityOrNearMiss ==
    x_pc = "returned" =>
        /\ (\E k \in 1..2 : x_args[k] = Absent \/ x_args[k][1] = <<>>) => x_value[1] = 0
        /\ ParseFailed => x_value[1] = IF EqualWithoutSpaces THEN 570
                                       ELSE IF NearlyEqual THEN 480 ELSE 0

\* Two unparsed strings one character apart, scored 0.8.
C27_Witness ==
    /\ x_pc = "returned"
    /\ x_args = <<Some(<<"z", "u", "o">>), Some(<<"z", "u", "x">>)>>
    /\ x_value = <<480>>

(***************************************************************************)
(* The correlation ids of the tasks of one batch.  process_all_files runs  *)
(* one process_file coroutine per file; each submits its task under a      *)
(* fresh uuid4, keeps that id and the log id of the answer in its local    *)
(* variables, and polls with them.  The coroutines interleave at every     *)
(* await.  A uuid4 is modelled as a value never drawn before.              *)
(***************************************************************************)
MaxTasks == 2
\* the retry budget of one task, kept small
MaxQueries == 2

Tasks == 1..MaxTasks
\* X-Tt-Logid of the answer to a submission, Absent when the header is missing
AnswerLogIds == {Absent, Some("log_a"), Some("log_b")}

TaskOnly ==
    UNCHANGED <<pollVars, asmVars, dedupVars, fnameVars, batchVars, scoreVars, fileVars,
                sessionVars, callVars>>

TaskInit ==
    /\ t_pc = [t \in Tasks |-> "submit"]
    /\ t_local = [t \in Tasks |-> [task_id |-> 0, x_tt_logid |-> "", retry_count |-> 0]]
    /\ requests = {}
    /\ uuids = 0

\* headers of submit_task_async: X-Api-Request-Id, no X-Tt-Logid
SubmitHeaders(task_id) ==
    [url |-> "submit", request_id |-> task_id, logid |-> Absent]

QueryHeadersWithoutLogid(task_id, x_tt_logid) ==
    [url |-> "query", request_id |-> task_id, logid |-> Some("")]

\* headers of query_task_async: X-Api-Request-Id and X-Tt-Logid
QueryHeaders(task_id, x_tt_logid) ==
    [url |-> "query", request_id |-> task_id, logid |-> Some(x_tt_logid)]

\* response.headers.get("X-Tt-Logid", "")
GetLogid(answer) == IF answer = Absent THEN "" ELSE answer[1]

\* submit_result = await submit_task_async(session, file_url), and the two
\* assignments from it; an answer without the success status raises.
SubmitTaskAsync(t) ==
    /\ t_pc[t] = "submit"
    /\ uuids' = uuids + 1
    /\ \E accepted \in BOOLEAN, answer \in AnswerLogIds :
         /\ requests' = requests \cup
                {[task |-> t, headers |-> SubmitHeaders(uuids + 1), answer |-> answer]}
         /\ IF accepted
            THEN /\ t_local' = [t_local EXCEPT ![t].task_id = uuids + 1,
                                               ![t].x_tt_logid = GetLogid(answer)]
                 /\ t_pc' = [t_pc EXCEPT ![t] = "poll"]
            ELSE /\ t_pc' = [t_pc EXCEPT ![t] = "returned"]
                 /\ UNCHANGED t_local
    /\ TaskOnly

\* One turn of the polling loop, or the exit from it once the budget is used.
QueryTaskAsync(t) ==
    /\ t_pc[t] = "poll"
    /\ IF t_local[t].retry_count < MaxQueries
       THEN \E code \in StatusCodes :
              /\ requests' = requests \cup
                     {[task |-> t,
                       headers |-> QueryHeaders(t_local[t].task_id, t_local[t].x_tt_logid),
                       answer |-> Absent]}
              /\ IF Classify(code) = "in-progress"
                 THEN /\ t_local' = [t_local EXCEPT ![t].retry_count = @ + 1]
                      /\ UNCHANGED t_pc
                 ELSE /\ t_pc' = [t_pc EXCEPT ![t] = "returned"]
                      /\ UNCHANGED t_local
       ELSE /\ t_pc' = [t_pc EXCEPT ![t] = "returned"]
            /\ UNCHANGED <<t_local, requests>>
    /\ UNCHANGED uuids
    /\ TaskOnly

TaskNext == \E t \in Tasks : SubmitTaskAsync(t) \/ QueryTaskAsync(t)

InitTasks ==
    TaskInit /\ PollIdle /\ AsmIdle /\ DedupIdle /\ FnameIdle /\ BatchIdle
    /\ ScoreIdle /\ FileIdle /\ SessionIdle /\ CallIdle

SpecTasks == InitTasks /\ [][TaskNext]_vars

Submissions(t) == {r \in requests : r.task = t /\ r.headers.url = "submit"}
Queries(t) == {r \in requests : r.task = t /\ r.headers.url = "query"}

\* C28: every poll of a task carries the request id its submission was sent
\* under and the log id its submission was answered with; all polls of one
\* task carry the same two ids; and no request of one task carries the
\* request id of a request of another task of the batch.
C28_PollsCarrySubmissionIds ==
    /\ \A t \in Tasks : \A q \in Queries(t) :
          /\ \E s \in Submissions(t) :
                /\ q.headers.request_id = s.headers.request_id
                /\ q.headers.logid = IF s.answer = Absent THEN Some("") ELSE s.answer
          /\ \A o \in Queries(t) : o.headers = q.headers
    /\ \A t, u \in Tasks : \A q \in Queries(t) : \A r \in Submissions(u) \cup Queries(u) :
          t # u => q.headers.request_id # r.headers.request_id

\* Two tasks, each polled again after an in-progress answer, both still polling.
C28_Witness ==
    /\ \A t \in 1..2 : t_pc[t] = "poll" /\ t_local[t].retry_count = 2 /\ Queries(t) # {}
    /\ t_local[1].x_tt_logid = "log_a"
    /\ t_local[2].x_tt_logid = "log_b"

\* The elements of seq at the indices in idx, in the order of seq.
Pick(seq, idx) ==
    [k \in 1..Cardinality(idx) |->
        seq[CHOOSE i \in idx : Cardinality({j \in idx : j < i}) = k - 1]]

\* The new calls that pass when each is checked on its own against the
\* existing records.
PassAlone ==
    {i \in DOMAIN new_calls :
        smart_duplicate_detection(<<new_calls[i]>>, existing_calls).process_count = 1}

\* C29: the detection splits the batch in two: the processed calls and the
\* calls of the skipped entries are complementary subsequences of the new
\* calls, the two counts are their lengths and add up to the size of the
\* batch; a call is processed exactly when it passes on its own against the
\* existing records, whatever else the batch holds; and what is saved is the
\* processed calls and nothing else.
C29_DetectionPartitionsBatch ==
    Detected =>
        LET r == detection_result IN
        /\ r.processed_calls = Pick(new_calls, PassAlone)
        /\ [i \in DOMAIN r.skipped_calls |-> r.skipped_calls[i].call]
             = Pick(new_calls, DOMAIN new_calls \ PassAlone)
        /\ r.process_count = Len(r.processed_calls)
        /\ r.skip_count = Len(r.skipped_calls)
        /\ r.skip_count + r.process_count = Len(new_calls)
        /\ d_pc = "done" =>
             saved = Some([i \in DOMAIN r.processed_calls |->
                              StoredImageCall(r.processed_calls[i])])

\* A batch whose first call is skipped and whose second passes, saved.
C29_Witness ==
    /\ d_pc = "done"
    /\ Len(new_calls) = 2
    /\ detection_result.skip_count = 1
    /\ detection_result.processed_calls = <<new_calls[2]>>
    /\ saved # Absent /\ Len(saved[1]) = 1

\* C30: whichever weights a comparison uses, the four of them add up to 1.0
\* (100 hundredths); each of the four scores lies in [0, 1] (0..600 in units
\* of 1/600), and so does the total (0..60000 in units of 1/60000).
C30_WeightsSumToOne ==
    s_pc = "scored" =>
        LET w == s_scores.weights IN
        /\ w.call_time_match + w.call_duration_match
             + w.contact_name_match + w.company_name_match = 100
        /\ \A part \in {s_scores.time, s_scores.duration, s_scores.contact, s_scores.company} :
              part \in 0..600
        /\ s_scores.total \in 0..60000

\* A comparison without a contact on one side: time 0.55, contact 0.05.
C30_Witness ==
    /\ s_pc = "scored"
    /\ s_scores.weights.call_time_match = 55
    /\ s_scores.weights.contact_name_match = 5
    /\ s_scores.weights.company_name_match = 10
    /\ s_scores.total > 0

====
